---- MODULE Spec2Model ----
(***************************************************************************)
(* Hall availability service (services/api): fetchHallData, processData,   *)
(* fetchWithRetry, processSlot.  One call of fetchHallData runs one        *)
(* asynchronous branch per location; a branch walks its halls in order and *)
(* suspends at every request attempt, backoff timer and body read.  A      *)
(* branch runs on its own: its position alone decides its next step.       *)
(* Network utilities (utils/network): one call of retryNetworkRequest with *)
(* the date-keyed cache of cacheHallData and loadCachedHallData.           *)
(* The screen (App.tsx, in its two revisions) and the hook useHallData:    *)
(* every handler is a sequence of steps split at its awaits, and what an   *)
(* awaited call gives back is chosen when it settles.                      *)
(***************************************************************************)
EXTENDS Integers, Sequences, FiniteSets

VARIABLES
    store,        \* which remote sheet the requests are answered from
    selectedDate, \* the argument of the running call
    callState,    \* "idle" | "running" | "resolved" | "rejected"
    allResults,   \* the list the branches of the running call append to
    returned,     \* the value the last call resolved to
    br,           \* per location: the position of its processData branch
    plan,         \* how the network answers each attempt of each range request
    calls,        \* number of calls of fetchHallData started
    previous,     \* the value the call before the last one resolved to
    effective,    \* a hall's header offsets and the data indices computed from them
    rn,           \* one call of retryNetworkRequest: its position, inputs and cache
    app,          \* the App component: its state, the stored flag, its running handlers
    hook          \* one component using useHallData: its state and running effects

vars == <<store, plan, selectedDate, callState, allResults, returned, br, calls, previous,
          effective, rn, app, hook>>

\* ------------------------------------------------------------------ bounds

\* number of network behaviours (one outcome per attempt of every range request)
NumPlans == 10
\* number of remote sheets the requests may be answered from
NumStores == 3

\* ---------------------------------------------------------- configuration

Rng(c, a, b) == [col |-> c, first |-> a, last |-> b]

Hall(n, mc, ec) ==
    [name |-> n, morningRange |-> Rng(mc, 4, 33), eveningRange |-> Rng(ec, 4, 33),
     morningHeaderOffset |-> <<0>>, eveningHeaderOffset |-> <<0>>]

Tathawade == "GMK Banquets Tathawade"
Ravet == "GMK Banquets Ravet"

LOCATIONS ==
    [l \in {Tathawade, Ravet} |->
        IF l = Tathawade
        THEN <<Hall("Aster", "B", "C"), Hall("Grand", "D", "E"),
               Hall("Tulip", "F", "G"), Hall("Lotus", "H", "I")>>
        ELSE <<Hall("Agastya", "L", "M"), Hall("Vyas", "N", "O"),
               Hall("Lawn", "P", "Q")>>]

Locs == DOMAIN LOCATIONS
Slots == {"Morning", "Evening"}

maxRetries == 3

\* ------------------------------------------------------------- characters

Alphabet == <<" ", "-", "0", "1", "2", "3", "4", "5", "6", "7", "8", "9",
              "A", "B", "C", "D", "E", "F", "G", "H", "I", "J", "K", "L", "M",
              "N", "O", "P", "Q", "R", "S", "T", "U", "V", "W", "X", "Y", "Z",
              "a", "b", "c", "d", "e", "f", "g", "h", "i", "j", "k", "l", "m",
              "n", "o", "p", "q", "r", "s", "t", "u", "v", "w", "x", "y", "z",
              ".", ":", "'">>

OrdTable == [c \in {Alphabet[i] : i \in 1..Len(Alphabet)} |->
                CHOOSE i \in 1..Len(Alphabet) : Alphabet[i] = c]

\* position of a character in Alphabet
Ord(c) == OrdTable[c]

IsUpper(c) == Ord(c) \in 13..38

\* String.prototype.toLowerCase on one character
LowerChar(c) == IF IsUpper(c) THEN Alphabet[Ord(c) + 26] ELSE c

\* mutant: the cell text is compared without lowercasing
toLowerCaseSkipped(s) == s

toLowerCase(s) == [i \in 1..Len(s) |-> LowerChar(s[i])]

IsSpace(c) == c = " "

RECURSIVE TrimStart(_)
TrimStart(s) == IF s # <<>> /\ IsSpace(Head(s)) THEN TrimStart(Tail(s)) ELSE s

RECURSIVE TrimEnd(_)
TrimEnd(s) ==
    IF s # <<>> /\ IsSpace(s[Len(s)]) THEN TrimEnd(SubSeq(s, 1, Len(s) - 1)) ELSE s

\* String.prototype.trim
trim(s) == TrimEnd(TrimStart(s))

\* the characters of the configured names
Chars(name) ==
    CASE name = Tathawade -> <<"G","M","K"," ","B","a","n","q","u","e","t","s"," ",
                               "T","a","t","h","a","w","a","d","e">>
      [] name = Ravet -> <<"G","M","K"," ","B","a","n","q","u","e","t","s"," ",
                           "R","a","v","e","t">>
      [] name = "Aster" -> <<"A","s","t","e","r">>
      [] name = "Grand" -> <<"G","r","a","n","d">>
      [] name = "Tulip" -> <<"T","u","l","i","p">>
      [] name = "Lotus" -> <<"L","o","t","u","s">>
      [] name = "Agastya" -> <<"A","g","a","s","t","y","a">>
      [] name = "Vyas" -> <<"V","y","a","s">>
      [] name = "Lawn" -> <<"L","a","w","n">>
      [] name = "GMK BANQUETS TATHAWADE" -> <<"G","M","K"," ","B","A","N","Q","U","E","T","S"," ","T","A","T","H","A","W","A","D","E">>
      [] name = "GMK BANQUETS RAVET" -> <<"G","M","K"," ","B","A","N","Q","U","E","T","S"," ","R","A","V","E","T">>

\* collation weight of a character: letters by alphabet position, case last
Weight(c) == IF IsUpper(c) THEN 2 * (Ord(c) - 12) + 1
             ELSE IF Ord(c) \in 39..64 THEN 2 * (Ord(c) - 38)
             ELSE IF Ord(c) > 64 THEN Ord(c) - 200
             ELSE Ord(c) - 100

RECURSIVE CompareChars(_, _)
CompareChars(s, t) ==
    IF s = <<>> /\ t = <<>> THEN 0
    ELSE IF s = <<>> THEN -1
    ELSE IF t = <<>> THEN 1
    ELSE IF Weight(Head(s)) < Weight(Head(t)) THEN -1
    ELSE IF Weight(Head(s)) > Weight(Head(t)) THEN 1
    ELSE CompareChars(Tail(s), Tail(t))

\* String.prototype.localeCompare on the configured names
localeCompare(a, b) == CompareChars(Chars(a), Chars(b))

\* ------------------------------------------------------------------ dates

\* a Date: getFullYear(), getMonth() (0-based), getDate()
MkDate(y, m, d) == [year |-> y, month |-> m, day |-> d]

Dates == {MkDate(2025, 4, 18), MkDate(2025, 4, 31), MkDate(2025, 5, 1)}

IsLeap(y) == (y % 4 = 0 /\ y % 100 # 0) \/ y % 400 = 0

\* new Date(year, monthIndex + 1, 0).getDate()
DaysInMonth(y, m) ==
    IF m = 1 THEN (IF IsLeap(y) THEN 29 ELSE 28)
    ELSE IF m \in {3, 5, 8, 10} THEN 30 ELSE 31

RECURSIVE NewDate(_, _, _)
\* new Date(year, monthIndex, day): a day or month outside its range carries
\* over into the neighbouring month or year
NewDate(y, m, d) ==
    IF m > 11 THEN NewDate(y + 1, m - 12, d)
    ELSE IF m < 0 THEN NewDate(y - 1, m + 12, d)
    ELSE IF d > DaysInMonth(y, m) THEN NewDate(y, m + 1, d - DaysInMonth(y, m))
    ELSE IF d < 1
    THEN (IF m = 0 THEN NewDate(y - 1, 11, d + DaysInMonth(y - 1, 11))
          ELSE NewDate(y, m - 1, d + DaysInMonth(y, m - 1)))
    ELSE MkDate(y, m, d)

months == <<"JAN", "FEB", "MAR", "APR", "MAY", "JUN", "JUL", "AUG", "SEP", "OCT", "NOV", "DEC">>

MonthNumber(abbrev) == CHOOSE i \in 1..Len(months) : months[i] = abbrev

getSheetDetails(date) ==
    [sheetName |-> <<months[date.month + 1], date.year>>,
     daysInMonth |-> DaysInMonth(date.year, date.month),
     monthName |-> months[date.month + 1],
     year |-> date.year]

DigitChar(d) == Alphabet[d + 3]

RECURSIVE Decimal(_)
\* String(n) for n >= 0
Decimal(n) == IF n < 10 THEN <<DigitChar(n)>> ELSE Append(Decimal(n \div 10), DigitChar(n % 10))

RECURSIVE padStart(_, _, _)
padStart(s, width, c) == IF Len(s) >= width THEN s ELSE padStart(<<c>> \o s, width, c)

formatDate(date) ==
    Decimal(date.year) \o <<"-">> \o padStart(Decimal(date.month + 1), 2, "0")
        \o <<"-">> \o padStart(Decimal(date.day), 2, "0")

\* ------------------------------------------------------- the remote store

Str(s) == [kind |-> "string", chars |-> s]
Num == [kind |-> "number", chars |-> <<>>]
Undefined == [kind |-> "undefined", chars |-> <<>>]

\* rows a sheet may hold: a row is the list of its cells
Pool == << <<Str(<<"V","A","C">>)>>,
           <<Str(<<>>)>>,
           <<>>,
           <<Str(<<"o","c","c">>)>>,
           <<Str(<<" ","v","a","c","a","n","t"," ">>)>>,
           <<Str(<<"O","c","c","u","p","i","e","d">>)>>,
           <<Str(<<"v","a","c","c">>)>>,
           <<Str(<<"b","o","o","k","e","d">>)>>,
           <<Str(<<" "," ">>)>>,
           <<Num>>,
           <<Str(<<"v","a","c">>), Str(<<"x">>)>>,
           <<Str(<<"v","a","c"," ","x">>)>>,
           <<Str(<<"V","a","c","a","n","t">>)>> >>

Columns == <<"A", "B", "C", "D", "E", "F", "G", "H", "I", "J", "K", "L", "M", "N", "O", "P", "Q">>
ColIndex(c) == CHOOSE i \in 1..Len(Columns) : Columns[i] = c

\* rows of a sheet whose halls are all taken
BookedPool == << <<Str(<<"o","c","c">>)>>,
                 <<Str(<<"O","c","c","u","p","i","e","d">>)>>,
                 <<Str(<<" ","O","C","C"," ">>)>> >>

\* the row of sheet tab `sheet` of store v at column c, r rows below the range
\* start; store 0 is a sheet on which every hall is taken on every day
StoreRow(v, sheet, c, r) ==
    IF v = 0 THEN BookedPool[((ColIndex(c) + r) % Len(BookedPool)) + 1]
    ELSE Pool[((4 * v + 3 * ColIndex(c) + 5 * r + MonthNumber(sheet[1]) + sheet[2]) % Len(Pool)) + 1]

\* rows the store answers for a range: in store 2 every other column ends its
\* data early (the API omits trailing empty rows), store 3 has two empty
\* columns (no values at all)
StoreRowCount(v, range) ==
    LET span == range.last - range.first + 1
    IN  IF v % 3 = 2 /\ ColIndex(range.col) % 2 = 1 THEN 17
        ELSE IF v > 0 /\ v % 3 = 0 /\ range.col \in {"H", "M"} THEN 0
        ELSE span

\* the parsed JSON body of a 2xx answer: { values?: string[][] }
StoreBody(v, sheet, range) ==
    LET n == StoreRowCount(v, range)
    IN  [hasValues |-> n > 0,
         values |-> [i \in 1..n |-> StoreRow(v, sheet, range.col, i - 1)]]

\* ------------------------------------------------------------ the network

\* outcomes of the successive attempts of a request that does not simply
\* succeed; attempts after the listed ones are answered 2xx with the sheet
FaultScripts == << <<"nonok">>,
                   <<"badbody">>,
                   <<"error">>,
                   <<"error", "timeout", "error", "timeout">>,
                   <<"timeout", "timeout", "timeout", "nonok">>,
                   <<"error", "error", "error">>,
                   <<"timeout", "badbody">>,
                   <<"timeout", "error", "error", "error", "error">> >>

\* plan 1: every request succeeds; plan 2: no request is ever answered; plan
\* 0: every request is answered at its fourth attempt; other plans: some
\* ranges follow a fault script
Script(p, c) ==
    IF p = 1 THEN <<>>
    ELSE IF p = 0 THEN <<"error", "timeout", "error">>
    ELSE IF p = 2 THEN <<"error", "timeout", "error", "timeout", "error">>
    ELSE IF (ColIndex(c) + p) % 5 = 0
    THEN FaultScripts[((ColIndex(c) + 3 * p) % Len(FaultScripts)) + 1]
    ELSE <<>>

\* how attempt number retryAttempt (0-based) of the request of range column c
\* ends: "ok" (2xx, JSON body), "badbody" (2xx, body is no JSON), "nonok"
\* (non-2xx status), "error" (fetch rejects), "timeout" (aborted after 15 s)
Outcome(p, c, retryAttempt) ==
    IF retryAttempt < Len(Script(p, c)) THEN Script(p, c)[retryAttempt + 1] ELSE "ok"

\* ------------------------------------------------------------ processData

Rec(date, loc, hallName, slot, status) ==
    [date |-> formatDate(date), location |-> loc, hallName |-> hallName,
     timeSlot |-> slot, status |-> status]

VacantWords == {<<"v","a","c">>, <<"v","a","c","c">>, <<"v","a","c","a","n","t">>, <<>>}
OccupiedWords == {<<"o","c","c">>, <<"o","c","c","u","p","i","e","d">>}

\* mutant: an undefined value is taken for a free slot
SlotStatusFailOpen(value) ==
    IF value.kind = "undefined" THEN "Available"
    ELSE IF value.kind # "string" THEN "TypeError"
    ELSE IF toLowerCase(trim(value.chars)) \in VacantWords THEN "Available" ELSE "Booked"

\* the status processSlot decides for a cell value; "TypeError" when
\* value.trim is not callable (the cell is not a string)
SlotStatus(value) ==
    IF value.kind = "undefined" THEN "Booked"
    ELSE IF value.kind # "string" THEN "TypeError"
    ELSE LET cleanValue == toLowerCase(trim(value.chars))
         IN  IF cleanValue \in VacantWords THEN "Available"
             ELSE IF cleanValue \in OccupiedWords THEN "Booked"
             ELSE "Booked"

\* hall.morningHeaderOffset || 0: an offset the configuration leaves out is <<>>
OrZero(headerOffset) == IF headerOffset = <<>> THEN 0 ELSE headerOffset[1]

\* mutant: the header rows are not skipped
EffectiveIndexNoOffset(date, headerOffset) == date.day - 1

\* (dayOfMonth - 1) + headerOffset
EffectiveIndex(date, headerOffset) == (date.day - 1) + headerOffset

\* mutant: a row without cells is read as an empty cell
ExtractValueEmptyCell(data, index) ==
    IF data.hasValues /\ Len(data.values) > index
    THEN LET rowData == data.values[index + 1]
         IN  IF Len(rowData) > 0 THEN rowData[1] ELSE Str(<<>>)
    ELSE Undefined

\* the value handed to processSlot: first cell of the row at the index
ExtractValue(data, index) ==
    IF data.hasValues /\ Len(data.values) > index
    THEN LET rowData == data.values[index + 1]
         IN  IF Len(rowData) > 0 THEN rowData[1] ELSE Undefined
    ELSE Undefined

\* mutant: the search for an existing entry does not compare the time slot
HasEntryAnySlot(results, date, loc, hallName, slot) ==
    \E i \in 1..Len(results) :
        /\ results[i].location = loc
        /\ results[i].hallName = hallName
        /\ results[i].date = formatDate(date)

\* allResults.find(...) of addFallbackIfNeeded
HasEntry(results, date, loc, hallName, slot) ==
    \E i \in 1..Len(results) :
        /\ results[i].location = loc
        /\ results[i].hallName = hallName
        /\ results[i].timeSlot = slot
        /\ results[i].date = formatDate(date)

\* mutant: the fallback is appended without looking for an existing entry
addFallbackAlways(results, date, loc, hallName, slot) ==
    Append(results, Rec(date, loc, hallName, slot, "Booked"))

\* mutant: the fallback record tells that the slot could not be read
addFallbackMarked(results, date, loc, hallName, slot) ==
    IF ~HasEntry(results, date, loc, hallName, slot)
    THEN Append(results, Rec(date, loc, hallName, slot, "Unknown"))
    ELSE results

addFallbackIfNeeded(results, date, loc, hallName, slot) ==
    IF ~HasEntry(results, date, loc, hallName, slot)
    THEN Append(results, Rec(date, loc, hallName, slot, "Booked"))
    ELSE results

\* mutant: the catch block of a hall restores the morning slot only
HallCatchMorningOnly(results, date, loc, hallName) ==
    addFallbackIfNeeded(results, date, loc, hallName, "Morning")

\* the catch block of one hall
HallCatch(results, date, loc, hallName) ==
    addFallbackIfNeeded(addFallbackIfNeeded(results, date, loc, hallName, "Morning"),
                        date, loc, hallName, "Evening")

\* config.halls.forEach(hall => allResults.push(Morning Booked, Evening Booked))
AllBooked(results, date, loc) ==
    LET Push(rs, i) == rs \o <<Rec(date, loc, LOCATIONS[loc][i].name, "Morning", "Booked"),
                               Rec(date, loc, LOCATIONS[loc][i].name, "Evening", "Booked")>>
        F[i \in 0..Len(LOCATIONS[loc])] == IF i = 0 THEN results ELSE Push(F[i - 1], i)
    IN  F[Len(LOCATIONS[loc])]

\* mutant: no try block catches
CatchesNothing(level) == FALSE

\* mutant: only the try block around the whole of fetchHallData catches
CatchesOuterOnly(level) == level = "outer"

\* which try blocks catch: the hall's (processData), the location's and the
\* outer one (fetchHallData)
Catches(level) == level \in {"hall", "location", "outer"}

\* the errors thrown while a hall is processed. A rejected fetch throws the
\* error of its attempt (fetchWithTimeout rethrows it): a TypeError for a
\* transport failure, an AbortError after the abort of the 15 s timer
NoError == [name |-> "none", message |-> ""]
AttemptError(outcome, retryAttempt) ==
    [name |-> IF outcome = "timeout" THEN "AbortError" ELSE "TypeError",
     message |-> IF outcome = "timeout" THEN "Aborted" ELSE "Network request failed",
     attempt |-> retryAttempt]
\* new Error(`API request failed for ...`)
ApiRequestFailed == [name |-> "Error", message |-> "API request failed"]
\* new Error(`Failed to fetch data for ... after 3 retries: ${error.message}`)
FailedToFetch(error) ==
    [name |-> "Error", message |-> "Failed to fetch data after retries", cause |-> error]
\* json() of a body that is no JSON
BodySyntaxError == [name |-> "SyntaxError", message |-> "JSON Parse error"]
\* value.trim() of a cell that is no string
TrimTypeError == [name |-> "TypeError", message |-> "value.trim is not a function"]

\* mutant: the try block lies around the loop over the halls: the catch block
\* restores the failing hall and the location's remaining halls are skipped
ThrowInHallEndsLocation(results, date, loc, hallName, error) ==
    [results |-> HallCatch(results, date, loc, hallName), then |-> "locationDone",
     error |-> error]

\* an error thrown while a hall is processed: the innermost catching handler acts
ThrowInHall(results, date, loc, hallName, error) ==
    IF Catches("hall")
    THEN [results |-> HallCatch(results, date, loc, hallName), then |-> "next",
          error |-> error]
    ELSE IF Catches("location")
    THEN [results |-> AllBooked(results, date, loc), then |-> "locationDone", error |-> error]
    ELSE IF Catches("outer")
    THEN [results |-> results, then |-> "returnEmpty", error |-> error]
    ELSE [results |-> results, then |-> "reject", error |-> error]

\* mutant: each slot is read from the other slot's range
ProcessSlotsSwapped(results, v, date, loc, hall) ==
    LET sheet == getSheetDetails(date).sheetName
        morningData == StoreBody(v, sheet, hall.eveningRange)
        eveningData == StoreBody(v, sheet, hall.morningRange)
        mStatus == SlotStatus(ExtractValue(morningData,
                                  EffectiveIndex(date, OrZero(hall.morningHeaderOffset))))
        eStatus == SlotStatus(ExtractValue(eveningData,
                                  EffectiveIndex(date, OrZero(hall.eveningHeaderOffset))))
        afterM == Append(results, Rec(date, loc, hall.name, "Morning", mStatus))
    IN  IF mStatus = "TypeError" THEN ThrowInHall(results, date, loc, hall.name, TrimTypeError)
        ELSE IF eStatus = "TypeError"
        THEN ThrowInHall(afterM, date, loc, hall.name, TrimTypeError)
        ELSE [results |-> Append(afterM, Rec(date, loc, hall.name, "Evening", eStatus)),
              then |-> "next", error |-> NoError]

\* both bodies are read: the two slots are interpreted, the morning first
ProcessSlots(results, v, date, loc, hall) ==
    LET sheet == getSheetDetails(date).sheetName
        morningData == StoreBody(v, sheet, hall.morningRange)
        eveningData == StoreBody(v, sheet, hall.eveningRange)
        morningHeaderOffset == OrZero(hall.morningHeaderOffset)
        eveningHeaderOffset == OrZero(hall.eveningHeaderOffset)
        mValue == ExtractValue(morningData, EffectiveIndex(date, morningHeaderOffset))
        eValue == ExtractValue(eveningData, EffectiveIndex(date, eveningHeaderOffset))
        mStatus == SlotStatus(mValue)
        eStatus == SlotStatus(eValue)
        afterM == Append(results, Rec(date, loc, hall.name, "Morning", mStatus))
    IN  IF mStatus = "TypeError" THEN ThrowInHall(results, date, loc, hall.name, TrimTypeError)
        ELSE IF eStatus = "TypeError"
        THEN ThrowInHall(afterM, date, loc, hall.name, TrimTypeError)
        ELSE [results |-> Append(afterM, Rec(date, loc, hall.name, "Evening", eStatus)),
              then |-> "next", error |-> NoError]

\* -------------------------------------------------------------------- sort

\* mutant: the comparator ignores the location
CompareHallNameOnly(a, b) ==
    IF a.hallName # b.hallName THEN localeCompare(a.hallName, b.hallName)
    ELSE IF a.timeSlot = "Morning" THEN -1 ELSE 1

\* the comparator of allResults.sort
SortCompare(a, b) ==
    IF a.location # b.location THEN localeCompare(a.location, b.location)
    ELSE IF a.hallName # b.hallName THEN localeCompare(a.hallName, b.hallName)
    ELSE IF a.timeSlot = "Morning" THEN -1 ELSE 1

RECURSIVE Insert(_, _)
Insert(s, x) ==
    IF s = <<>> THEN <<x>>
    ELSE IF SortCompare(x, s[Len(s)]) < 0
    THEN Append(Insert(SubSeq(s, 1, Len(s) - 1), x), s[Len(s)])
    ELSE Append(s, x)

\* mutant: the list is returned in arrival order
ArrivalOrder(s) == s

\* Array.prototype.sort with SortCompare (insertion sort, stable; each prefix
\* is sorted once, then the next element inserted)
SortResults(s) ==
    LET F[i \in 0..Len(s)] ==
            IF i = 0 THEN <<>>
            ELSE CHOOSE r \in {Insert(sorted, s[i]) : sorted \in {F[i - 1]}} : TRUE
    IN  F[Len(s)]

\* ------------------------------------------------------------- fetchWithRetry

Min(a, b) == IF a < b THEN a ELSE b

RECURSIVE Pow2(_)
Pow2(n) == IF n = 0 THEN 1 ELSE 2 * Pow2(n - 1)

\* Math.min(2000 * Math.pow(2, retryAttempt), 10000)
BackoffDelay(retryAttempt) == Min(2000 * Pow2(retryAttempt), 10000)

\* Math.random() * 1000: values of [0, 1000)
Jitter == {0, 999}

\* mutant: one retry too many
MayRetryOnceMore(retryAttempt) == retryAttempt <= maxRetries

\* may fetchWithRetry call itself once more after a failed attempt
MayRetry(retryAttempt) == retryAttempt < maxRetries

\* mutant: an aborted attempt is not taken for a failure
AttemptThrowsTransportOnly(outcome) == outcome = "error"

\* does an attempt with this outcome reach the catch block of fetchWithRetry
\* (only a rejected fetch does; a resolved response is returned as it is)
AttemptThrows(outcome) == outcome \in {"error", "timeout"}

\* ----------------------------------- retryNetworkRequest (utils/network)

\* options?.maxRetries ?? 3
defaultMaxRetries == 3

\* the maxRetries option: absent, or 2 as handleDevServerConnection passes it
RetryOptions == {<<>>, <<2>>}

MaxRetriesOf(options) == IF options = <<>> THEN defaultMaxRetries ELSE options[1]

\* messages of the errors an attempt may end with
NetworkFailed == <<"N","e","t","w","o","r","k"," ","r","e","q","u","e","s","t"," ","f","a","i","l","e","d">>
StatusFailed == <<"R","e","q","u","e","s","t"," ","f","a","i","l","e","d"," ","w","i","t","h"," ","s","t","a","t","u","s"," ","5","0","0">>
CleartextBlocked == <<"J","a","v","a",".","i","o",".","I","O","E","x","c","e","p","t","i","o","n",":"," ","C","l","e","a","r","t","e","x","t"," ","H","T","T","P"," ","t","r","a","f","f","i","c"," ","t","o"," ","h","o","s","t"," ","n","o","t"," ","p","e","r","m","i","t","t","e","d">>
UndefinedDate == <<"C","a","n","n","o","t"," ","r","e","a","d"," ","p","r","o","p","e","r","t","y"," ","'","t","o","I","S","O","S","t","r","i","n","g","'"," ","o","f"," ","u","n","d","e","f","i","n","e","d">>

\* how an attempt of requestFn may end: with data or with one of the errors
RequestOutcomes == {"data", "network", "status", "cleartext"}

MessageOf(outcome) ==
    CASE outcome = "network" -> NetworkFailed
      [] outcome = "status" -> StatusFailed
      [] outcome = "cleartext" -> CleartextBlocked

\* String.prototype.includes
includes(s, t) == \E i \in 0..(Len(s) - Len(t)) : SubSeq(s, i + 1, i + Len(t)) = t

\* the default retry condition
shouldRetry(message) ==
    LET errorMessage == toLowerCase(message)
    IN  \/ includes(errorMessage, <<"j","a","v","a",".","i","o">>)
        \/ includes(errorMessage, <<"s","e","c","t","i","o","n">>)
        \/ includes(errorMessage, <<"n","e","t","w","o","r","k">>)
        \/ includes(errorMessage, <<"t","i","m","e","o","u","t">>)
        \/ includes(errorMessage, <<"c","o","n","n","e","c","t","i","o","n">>)

\* the security-related error that is never retried on android
IsCleartext(message, os) ==
    /\ \/ includes(toLowerCase(message), <<"j","a","v","a",".","i","o">>)
       \/ includes(toLowerCase(message), <<"s","e","c","t","i","o","n">>)
    /\ includes(message, <<"J","a","v","a",".","i","o",".","I","O","E","x","c","e","p","t","i","o","n",":"," ","C","l","e","a","r","t","e","x","t"," ","H","T","T","P"," ","t","r","a","f","f","i","c">>)
    /\ os = "android"

\* mutant: the cache is consulted after every failed attempt
AfterEveryAttempt(attempt, n) == TRUE

\* attempt === maxRetries - 1
LastAttempt(attempt, n) == attempt = n - 1

\* no call of retryNetworkRequest made
NoRequest ==
    [pc |-> "idle", attempt |-> 0,
     requestFn |-> [name |-> "", hasDate |-> FALSE, script |-> <<>>],
     maxRetries |-> <<>>, os |-> "ios", storageFails |-> FALSE,
     cache |-> <<>>, lastError |-> <<>>, result |-> <<>>, ops |-> <<>>]

\* the promise of the call rejects with error
Throws(r, error) == [r EXCEPT !.pc = "thrown", !.result = error]

\* the rest of the catch block once the cache had nothing to give (or was not
\* consulted): rethrow, or wait for the backoff delay
RethrowOrWait(r) ==
    IF ~shouldRetry(r.lastError) \/ r.attempt >= MaxRetriesOf(r.maxRetries) - 1
    THEN Throws(r, r.lastError)
    ELSE [r EXCEPT !.pc = "waiting"]

\* the catch block of an attempt up to its first suspension
Catch(r, message) ==
    LET c == [r EXCEPT !.lastError = message]
    IN  IF IsCleartext(message, r.os) THEN Throws(c, message)
        ELSE IF LastAttempt(r.attempt, MaxRetriesOf(r.maxRetries))
        THEN IF r.requestFn.hasDate THEN [c EXCEPT !.pc = "loading"]
             ELSE Throws(c, UndefinedDate)
        ELSE RethrowOrWait(c)

\* ------------------------------------------------------ the screen (App.tsx)

ITEMS_PER_PAGE == 20

AUTH_PASSWORD == "1M@GMK#"

\* mutant: every password is accepted
AnyPassword(password) == TRUE

\* password === AUTH_PASSWORD
PasswordMatches(password) == password = AUTH_PASSWORD

\* what the user may have typed into the password field
Passwords == {"", "1m@gmk#", AUTH_PASSWORD}

\* the two revisions of App.tsx
Revisions == {"first", "later"}

\* String.prototype.toUpperCase on one character
UpperChar(c) == IF Ord(c) \in 39..64 THEN Alphabet[Ord(c) - 26] ELSE c

toUpperCase(s) == [i \in 1..Len(s) |-> UpperChar(s[i])]

\* mutant: the first page leaves out the first item
sliceAfterFirst(list, start, end) == SubSeq(list, start + 2, Min(end, Len(list)))

\* Array.prototype.slice(start, end)
slice(list, start, end) == SubSeq(list, start + 1, Min(end, Len(list)))

\* what fetchHallData(date) resolves to once every hall is through: the
\* records of every hall (read from the sheet, or the fallback of its catch
\* block when the network is down), sorted
FetchedRecords(v, date, up) ==
    LET Through(results, loc, i) ==
            IF up THEN ProcessSlots(results, v, date, loc, LOCATIONS[loc][i]).results
            ELSE HallCatch(results, date, loc, LOCATIONS[loc][i].name)
        Branch(results, loc) ==
            LET F[i \in 0..Len(LOCATIONS[loc])] ==
                    IF i = 0 THEN results
                    ELSE CHOOSE r \in {Through(before, loc, i) : before \in {F[i - 1]}} : TRUE
            IN  F[Len(LOCATIONS[loc])]
    IN  SortResults(Branch(Branch(<<>>, Tathawade), Ravet))

\* the messages an awaited call may reject with
FailedToResolve == <<"F","a","i","l","e","d"," ","t","o"," ","r","e","s","o","l","v","e"," ","J","a","v","a"," ","I","O"," ","s","e","c","t","i","o","n"," ","e","r","r","o","r">>
Rejections == {NetworkFailed, CleartextBlocked}

\* what the caller of fetchHallData gets when the promise settles: the
\* records, an empty list, or a rejection
FetchOutcomes ==
    {[kind |-> "records", message |-> <<>>], [kind |-> "empty", message |-> <<>>]}
        \cup {[kind |-> "rejected", message |-> m] : m \in Rejections}

\* FetchedRecords for every sheet and every day the picker offers
Fetched == [v \in 1..NumStores |-> [d \in Dates |-> FetchedRecords(v, d, TRUE)]]

\* detectErrorType, which logErrorForAnalytics returns
detectErrorType(message) ==
    LET errorStr == toLowerCase(message)
    IN  IF \/ includes(errorStr, <<"j","a","v","a",".","i","o",".">>)
           \/ includes(errorStr, <<"j","a","v","a"," ","i","o"," ","s","e","c","t","i","o","n">>)
           \/ includes(errorStr, <<"s","e","c","t","i","o","n">>)
        THEN "java-io"
        ELSE IF \/ includes(errorStr, <<"n","e","t","w","o","r","k">>)
                \/ includes(errorStr, <<"u","n","a","b","l","e"," ","t","o"," ","r","e","s","o","l","v","e"," ","h","o","s","t">>)
                \/ includes(errorStr, <<"e","c","o","n","n","r","e","f","u","s","e","d">>)
                \/ includes(errorStr, <<"c","o","n","n","e","c","t","i","o","n">>)
                \/ includes(errorStr, <<"t","i","m","e","o","u","t">>)
        THEN "network"
        ELSE IF \/ includes(errorStr, <<"u","p","d","a","t","e">>)
                \/ includes(errorStr, <<"d","o","w","n","l","o","a","d">>)
                \/ includes(errorStr, <<"f","e","t","c","h">>)
        THEN "update"
        ELSE "general"

\* the keys of an object in the order they were first assigned
KeysInOrder(keys) ==
    LET Assigned(seen, key) ==
            IF \E j \in 1..Len(seen) : seen[j] = key THEN seen ELSE Append(seen, key)
        F[i \in 0..Len(keys)] ==
            IF i = 0 THEN <<>>
            ELSE CHOOSE r \in {Assigned(seen, keys[i]) : seen \in {F[i - 1]}} : TRUE
    IN  F[Len(keys)]

\* the section header of a location
Header(date, location) == Rec(date, location, "", "Morning", "Available")

\* groups[location][hallName][timeSlot] after the reduce, locations being the
\* locations of the records that go under the key: the status assigned last,
\* null if none was
Grouped(hallData, locations, hallName, timeSlot) ==
    LET hits == {i \in 1..Len(hallData) : /\ hallData[i].location \in locations
                                          /\ hallData[i].hallName = hallName
                                          /\ hallData[i].timeSlot = timeSlot}
    IN  IF hits = {} THEN "null"
        ELSE hallData[CHOOSE i \in hits : \A j \in hits : j <= i].status

\* status || fallback
OrElse(status, fallback) == IF status = "null" THEN fallback ELSE status

\* mutant: the two records of a hall, Evening first
SlotPairEveningFirst(date, location, hallName, morning, evening) ==
    <<Rec(date, location, hallName, "Evening", evening),
      Rec(date, location, hallName, "Morning", morning)>>

\* the two records of a hall, Morning first
SlotPair(date, location, hallName, morning, evening) ==
    <<Rec(date, location, hallName, "Morning", morning),
      Rec(date, location, hallName, "Evening", evening)>>

\* the pushes of consecutive iterations: the concatenation of items, in order
Flat(items) ==
    LET F[i \in 0..Len(items)] ==
            IF i = 0 THEN <<>>
            ELSE CHOOSE r \in {before \o items[i] : before \in {F[i - 1]}} : TRUE
    IN  F[Len(items)]

\* processHallData of the first revision: the list it stores in halls
processHallData(hallData, date) ==
    LET LocationKeys == KeysInOrder([i \in 1..Len(hallData) |-> hallData[i].location])
        HallKeys(location) ==
            LET At(r) == r.location = location
                own == SelectSeq(hallData, At)
            IN  KeysInOrder([i \in 1..Len(own) |-> own[i].hallName])
        Section(location) ==
            LET Rows(hallName) ==
                    SlotPair(date, location, hallName,
                             OrElse(Grouped(hallData, {location}, hallName, "Morning"), "Booked"),
                             OrElse(Grouped(hallData, {location}, hallName, "Evening"), "Booked"))
                keys == HallKeys(location)
            IN  <<Header(date, location)>> \o Flat([k \in 1..Len(keys) |-> Rows(keys[k])])
    IN  Flat([k \in 1..Len(LocationKeys) |-> Section(LocationKeys[k])])

locationOrder == <<"GMK BANQUETS TATHAWADE", "GMK BANQUETS RAVET">>

hallOrder ==
    [l \in {"GMK BANQUETS TATHAWADE", "GMK BANQUETS RAVET"} |->
        IF l = "GMK BANQUETS TATHAWADE" THEN <<"Aster", "Grand", "Tulip", "Lotus">>
        ELSE <<"Agastya", "Vyas", "Lawn">>]

\* processHallData of the later revision: the list it stores in halls
processHallDataLater(hallData, date) ==
    LET Section(location) ==
            LET Same(l) == toUpperCase(Chars(l)) = toUpperCase(Chars(location))
                same == {hallData[i].location : i \in {j \in 1..Len(hallData) :
                                                          Same(hallData[j].location)}}
                Known(hallName) ==
                    \E i \in 1..Len(hallData) : /\ Same(hallData[i].location)
                                                /\ hallData[i].hallName = hallName
                Rows(hallName) ==
                    IF Known(hallName)
                    THEN SlotPair(date, location, hallName,
                                  OrElse(Grouped(hallData, same, hallName, "Morning"), "Enquiry"),
                                  OrElse(Grouped(hallData, same, hallName, "Evening"), "Enquiry"))
                    ELSE <<>>
                keys == hallOrder[location]
            IN  IF same # {}
                THEN <<Header(date, location)>> \o Flat([k \in 1..Len(keys) |-> Rows(keys[k])])
                ELSE <<>>
    IN  Flat([k \in 1..Len(locationOrder) |-> Section(locationOrder[k])])

\* processHallData as the revision has it
Organized(revision, hallData, date) ==
    IF revision = "first" THEN processHallData(hallData, date)
    ELSE processHallDataLater(hallData, date)

\* processHallData of every list fetchHallData can give, computed once
OrganizedFetched ==
    [revision \in Revisions |->
        [v \in 1..NumStores |-> [d \in Dates |-> Organized(revision, Fetched[v][d], d)]]]

\* processHallData as a handler calls it: the table's entry where hallData
\* is a fetched list, the computation itself for any other list
OrganizedOnce(revision, hallData, date) ==
    IF date \in Dates /\ \E v \in 1..NumStores : hallData = Fetched[v][date]
    THEN LET v == CHOOSE w \in 1..NumStores : hallData = Fetched[w][date]
         IN  OrganizedFetched[revision][v][date]
    ELSE Organized(revision, hallData, date)

\* what renderHallItem returns for no view
NoView == [kind |-> "null"]

\* renderHallItem({item, index}) of the first revision, index counted from 1
renderHallItem(halls, item, index) ==
    IF item.hallName = "" THEN [kind |-> "header", location |-> item.location]
    ELSE IF item.timeSlot = "Morning"
    THEN IF index + 1 > Len(halls) \/ halls[index + 1].hallName # item.hallName
         THEN NoView
         ELSE [kind |-> "hall", hallName |-> item.hallName, Morning |-> item.status,
               Evening |-> halls[index + 1].status]
    ELSE NoView

\* renderHallItem({item, index}) of the later revision, index counted from 1
renderHallItemLater(halls, item, index) ==
    IF item.hallName = "" THEN [kind |-> "header", location |-> item.location]
    ELSE IF item.timeSlot = "Morning"
    THEN LET found == {i \in 1..Len(halls) : /\ halls[i].hallName = item.hallName
                                             /\ halls[i].location = item.location
                                             /\ halls[i].timeSlot = "Evening"}
             evening ==
                 IF /\ index + 1 <= Len(halls)
                    /\ halls[index + 1].hallName = item.hallName
                    /\ halls[index + 1].timeSlot = "Evening"
                 THEN halls[index + 1].status
                 ELSE IF found # {}
                 THEN halls[CHOOSE i \in found : \A j \in found : i <= j].status
                 ELSE "Enquiry"
         IN  [kind |-> "hall", hallName |-> item.hallName, Morning |-> item.status,
              Evening |-> evening]
    ELSE NoView

\* ------------------------------------------------------ the screen's state

\* the day the component is mounted on (new Date())
Today == MkDate(2025, 4, 18)

\* the days picked in the date picker
PickedDates == {Today, MkDate(2025, 4, 31)}

\* a running handler: where it is suspended (pc) and what its closure holds
Handler(name, pc, date, password) ==
    [name |-> name, pc |-> pc, date |-> date, password |-> password]

\* the component as it is mounted: the useState defaults, and the effect that
\* runs checkAuthStatus suspended at AsyncStorage.getItem. revision, dev
\* (__DEV__) and stored (the item under AUTH_STORAGE_KEY) outlive the component
Mounted(revision, dev, stored) ==
    LET a == [revision |-> revision, dev |-> dev, stored |-> stored,
              isAuthenticated |-> FALSE, password |-> "", authError |-> "",
              isCheckingAuth |-> TRUE, date |-> Today, halls |-> <<>>,
              displayedHalls |-> <<>>, loading |-> FALSE, page |-> 1,
              networkError |-> FALSE, errorType |-> "null", running |-> <<>>]
    IN  [a EXCEPT !.running = <<Handler("checkAuthStatus", "getItem", Today, "")>>]

\* no App component
NoApp == [revision |-> "none", running |-> <<>>]

\* a run of loadData suspended at await fetchHallData(selectedDate); latest
\* tells whether no later run has been started
LoadData(date) == [date |-> date, latest |-> TRUE]

\* a component using useHallData(date) after its first render: the useState
\* defaults, and the effect's first run of loadData. fromLatest and
\* latestOutcome keep track of which run filled halls and of how the latest
\* run ended
MountedHook(date) ==
    [selectedDate |-> date, halls |-> <<>>, loading |-> TRUE, error |-> "null",
     running |-> <<LoadData(date)>>, fromLatest |-> FALSE, latestOutcome |-> "pending"]

\* no component using the hook
NoHook == [selectedDate |-> Today, halls |-> <<>>, loading |-> FALSE, error |-> "null",
           running |-> <<>>, fromLatest |-> FALSE, latestOutcome |-> "none"]

\* --------------------------------------------------------------- the state

\* a location branch: where it stands (pc), the hall and slot it is busy
\* with, the retryAttempt of the request in flight, the backoff delay it waits
\* for, the responses it holds, the requests it has issued for its hall so far
\* and the error details its hall catch blocks have logged
Idle == [pc |-> "idle", hall |-> 0, slot |-> "Morning", retryAttempt |-> 0, delay |-> 0,
         mResp |-> "none", eResp |-> "none", attempts |-> 0, log |-> <<>>]

Finished(log) == [Idle EXCEPT !.pc = "done", !.log = log]

\* the branch has just issued the first morning attempt of hall i
StartHall(i, log) == [Idle EXCEPT !.pc = "inflight", !.hall = i, !.attempts = 1, !.log = log]

HallOf(loc) == LOCATIONS[loc][br[loc].hall]

\* the range of the request the branch is busy with
RangeOf(loc) ==
    IF br[loc].slot = "Morning" THEN HallOf(loc).morningRange ELSE HallOf(loc).eveningRange

\* how the attempt in flight of branch loc ends
OutcomeOf(loc) == Outcome(plan, RangeOf(loc).col, br[loc].retryAttempt)

\* the header offsets of a hall, its data indices not computed yet
NoIndices(date, morningHeaderOffset, eveningHeaderOffset) ==
    [date |-> date,
     morningHeaderOffset |-> morningHeaderOffset, eveningHeaderOffset |-> eveningHeaderOffset,
     effectiveMorningDataIndex |-> <<>>, effectiveEveningDataIndex |-> <<>>]

\* no call made yet
NotCalled ==
    /\ callState = "idle"
    /\ allResults = <<>>
    /\ returned = <<>>
    /\ br = [l \in Locs |-> Idle]
    /\ calls = 0
    /\ previous = <<>>
    /\ rn = NoRequest
    /\ app = NoApp
    /\ hook = NoHook

Init ==
    /\ store \in 1..NumStores
    /\ plan \in 1..NumPlans
    /\ selectedDate \in Dates
    /\ effective = NoIndices(selectedDate, <<0>>, <<0>>)
    /\ NotCalled

\* mutant: one list shared by all calls
KeepResults(old) == old

\* const allResults: HallData[] = []: every call collects into a list of its own
FreshResults(old) == <<>>

\* mutant: the locations are processed one after the other and only the first
\* one is started by the call
StartCallFirstLocation ==
    /\ calls' = calls + 1
    /\ previous' = returned
    /\ allResults' = <<>>
    /\ returned' = <<>>
    /\ UNCHANGED <<store, plan, selectedDate, effective, rn, app, hook>>
    /\ callState' = "running"
    /\ br' = [l \in Locs |-> IF l = Tathawade THEN StartHall(1, <<>>) ELSE Idle]

\* fetchHallData(selectedDate) up to its first suspension: the date is
\* validated and every location branch issues its first request
StartCall ==
    /\ calls' = calls + 1
    /\ previous' = returned
    /\ allResults' = FreshResults(allResults)
    /\ returned' = <<>>
    /\ UNCHANGED <<store, plan, selectedDate, effective, rn, app, hook>>
    /\ IF selectedDate.day < 1 \/ selectedDate.day > getSheetDetails(selectedDate).daysInMonth
       THEN /\ callState' = "resolved"
            /\ br' = [l \in Locs |-> Idle]
       ELSE /\ callState' = "running"
            /\ br' = [l \in Locs |-> StartHall(1, <<>>)]

Call ==
    /\ callState = "idle"
    /\ StartCall

\* mutant: the list is sorted whenever a hall is over
FinishSorting(loc, out) ==
    LET b == br[loc]
        more == out.then = "next" /\ b.hall < Len(LOCATIONS[loc])
        log == IF out.error = NoError THEN b.log
               ELSE Append(b.log, [hallName |-> HallOf(loc).name, error |-> out.error])
    IN  /\ allResults' = SortResults(out.results)
        /\ br' = [br EXCEPT ![loc] = IF more THEN StartHall(b.hall + 1, log) ELSE Finished(log)]
        /\ UNCHANGED <<callState, returned>>

\* the hall of branch loc is over with outcome out: the branch goes on with
\* its next hall (issuing that hall's morning request) or ends
Finish(loc, out) ==
    LET b == br[loc]
        more == out.then = "next" /\ b.hall < Len(LOCATIONS[loc])
        log == IF out.error = NoError THEN b.log
               ELSE Append(b.log, [hallName |-> HallOf(loc).name, error |-> out.error])
    IN  /\ allResults' = out.results
        /\ br' = [br EXCEPT ![loc] = IF more THEN StartHall(b.hall + 1, log) ELSE Finished(log)]
        /\ callState' = IF out.then = "reject" THEN "rejected"
                         ELSE IF out.then = "returnEmpty" THEN "resolved"
                         ELSE callState
        /\ UNCHANGED returned

\* mutant: after the last attempt the error of the first attempt is thrown
RetryThrowsFirst(loc) ==
    LET b == br[loc] IN
    IF MayRetry(b.retryAttempt)
    THEN /\ \E j \in Jitter :
                br' = [br EXCEPT ![loc].pc = "backoff",
                                 ![loc].delay = BackoffDelay(b.retryAttempt) + j]
         /\ UNCHANGED <<allResults, callState, returned>>
    ELSE Finish(loc, ThrowInHall(allResults, selectedDate, loc, HallOf(loc).name,
                     FailedToFetch(AttemptError(Outcome(plan, RangeOf(loc).col, 0), 0))))

\* the catch block of fetchWithRetry: wait and call again, or rethrow the
\* error of this attempt, which the catch block at 221 wraps
Retry(loc) ==
    LET b == br[loc] IN
    IF MayRetry(b.retryAttempt)
    THEN /\ \E j \in Jitter :
                br' = [br EXCEPT ![loc].pc = "backoff",
                                 ![loc].delay = BackoffDelay(b.retryAttempt) + j]
         /\ UNCHANGED <<allResults, callState, returned>>
    ELSE Finish(loc, ThrowInHall(allResults, selectedDate, loc, HallOf(loc).name,
                     FailedToFetch(AttemptError(OutcomeOf(loc), b.retryAttempt))))

\* fetchWithRetry returns a response: the morning one is kept and the evening
\* request issued; after the evening one the bodies are read (text() of both
\* when a status is not 2xx, json() of both otherwise)
Answered(loc, outcome) ==
    LET b == br[loc] IN
    /\ br' = IF b.slot = "Morning"
             THEN [br EXCEPT ![loc].slot = "Evening", ![loc].retryAttempt = 0,
                             ![loc].mResp = outcome, ![loc].attempts = b.attempts + 1]
             ELSE [br EXCEPT ![loc].pc = "parsing", ![loc].eResp = outcome]
    /\ UNCHANGED <<allResults, callState, returned>>

\* the attempt in flight of branch loc settles with outcome
Settles(loc, outcome) ==
    /\ br[loc].pc = "inflight"
    /\ OutcomeOf(loc) = outcome
    /\ UNCHANGED <<store, plan, selectedDate, calls, previous, effective, rn, app, hook>>
    /\ IF AttemptThrows(outcome) THEN Retry(loc) ELSE Answered(loc, outcome)

\* fetch rejects with a transport error
AttemptErrors(loc) == Settles(loc, "error")

\* the timer of fetchWithTimeout: set when the attempt is issued, cleared as
\* soon as its fetch settles; each attempt has a controller of its own
TimerArmed(loc) == br[loc].pc = "inflight"

\* mutant: one controller for all requests: the abort ends every attempt in
\* flight
AbortsEveryRequest(loc) ==
    /\ TimerArmed(loc)
    /\ OutcomeOf(loc) = "timeout"
    /\ MayRetry(br[loc].retryAttempt)
    /\ br' = [l \in Locs |->
                IF TimerArmed(l) /\ MayRetry(br[l].retryAttempt)
                THEN [br[l] EXCEPT !.pc = "backoff", !.delay = BackoffDelay(br[l].retryAttempt)]
                ELSE br[l]]
    /\ UNCHANGED <<store, plan, selectedDate, callState, allResults, returned, calls, previous,
                   effective, rn, app, hook>>

\* the 15 s timer aborts the attempt: fetch rejects with an AbortError
AttemptTimesOut(loc) ==
    /\ TimerArmed(loc)
    /\ Settles(loc, "timeout")

\* fetch resolves with a response
Responds(loc) == \E o \in {"ok", "badbody", "nonok"} : Settles(loc, o)

\* mutant: the retry is made with the same retryAttempt (followed for a dozen
\* attempts)
TimerFiresSameAttempt(loc) ==
    LET b == br[loc] IN
    /\ b.pc = "backoff"
    /\ b.attempts < 12
    /\ br' = [br EXCEPT ![loc].pc = "inflight", ![loc].delay = 0,
                        ![loc].attempts = b.attempts + 1]
    /\ UNCHANGED <<store, plan, selectedDate, callState, allResults, returned, calls, previous,
                   effective, rn, app, hook>>

\* the backoff timer fires: fetchWithRetry(url, retryAttempt + 1, ...)
TimerFires(loc) ==
    LET b == br[loc] IN
    /\ b.pc = "backoff"
    /\ br' = [br EXCEPT ![loc].pc = "inflight", ![loc].delay = 0,
                        ![loc].retryAttempt = b.retryAttempt + 1,
                        ![loc].attempts = b.attempts + 1]
    /\ UNCHANGED <<store, plan, selectedDate, callState, allResults, returned, calls, previous,
                   effective, rn, app, hook>>

\* the body reads settle. After a non-2xx status the texts are logged and
\* the hall fails (207-228); otherwise Promise.all([morningResponse.json(),
\* eveningResponse.json()]) settles and the hall's two slots are interpreted
BodiesRead(loc) ==
    LET b == br[loc] IN
    /\ b.pc = "parsing"
    /\ UNCHANGED <<store, plan, selectedDate, calls, previous, effective, rn, app, hook>>
    /\ \E out \in {IF b.mResp = "nonok" \/ b.eResp = "nonok"
                     THEN ThrowInHall(allResults, selectedDate, loc, HallOf(loc).name,
                                      FailedToFetch(ApiRequestFailed))
                     ELSE IF b.mResp = "badbody" \/ b.eResp = "badbody"
                     THEN ThrowInHall(allResults, selectedDate, loc, HallOf(loc).name,
                                      BodySyntaxError)
                     ELSE ProcessSlots(allResults, store, selectedDate, loc, HallOf(loc))} :
           Finish(loc, out)

\* mutant: the list is returned as soon as one location is done
ReturnAfterFirstLocation ==
    /\ callState = "running"
    /\ \E l \in Locs : br[l].pc = "done"
    /\ callState' = "resolved"
    /\ returned' = SortResults(allResults)
    /\ UNCHANGED <<store, plan, selectedDate, allResults, br, calls, previous, effective, rn, app, hook>>

\* Promise.all(locationPromises) is fulfilled: sort and return
Return ==
    /\ callState = "running"
    /\ \A l \in Locs : br[l].pc = "done"
    /\ callState' = "resolved"
    /\ returned' = SortResults(allResults)
    /\ UNCHANGED <<store, plan, selectedDate, allResults, br, calls, previous, effective, rn, app, hook>>

Next ==
    \/ Call
    \/ \E l \in Locs : AttemptErrors(l)
    \/ \E l \in Locs : AttemptTimesOut(l)
    \/ \E l \in Locs : TimerFires(l)
    \/ \E l \in Locs : Responds(l)
    \/ \E l \in Locs : BodiesRead(l)
    \/ Return

Spec == Init /\ [][Next]_vars

\* ---------------------------------------------- two calls, healthy network

\* calls of fetchHallData made one after the other
MaxCalls == 2

\* the caller calls again, with the same date, once the first call resolved
CallAgain ==
    /\ callState = "resolved"
    /\ calls < MaxCalls
    /\ StartCall

InitTwice == Init /\ plan = 1

NextTwice ==
    \/ Call
    \/ CallAgain
    \/ \E l \in Locs : Responds(l)
    \/ \E l \in Locs : BodiesRead(l)
    \/ Return

SpecTwice == InitTwice /\ [][NextTwice]_vars

\* ------------------------------------------ dates built from any day number

\* arguments (year, monthIndex, day) the caller builds the Date from; no two
\* of them give the same Date
DateArguments == {<<2025, 5, 31>>, <<2025, 1, 30>>, <<2025, 3, 0>>,
                  <<2025, 4, 18>>, <<2024, 1, 29>>}

InitDates ==
    /\ store = 1
    /\ plan \in 1..2
    /\ selectedDate \in {NewDate(a[1], a[2], a[3]) : a \in DateArguments}
    /\ effective = NoIndices(selectedDate, <<0>>, <<0>>)
    /\ NotCalled

SpecDates == InitDates /\ [][Next]_vars

\* ------------------------------------- an outage, then a healthy network

\* between two calls the network comes back
NetworkRecovers ==
    /\ callState = "resolved"
    /\ calls = 1
    /\ plan = 2
    /\ plan' = 1
    /\ UNCHANGED <<store, selectedDate, callState, allResults, returned, br, calls, previous,
                   effective, rn, app, hook>>

\* the first call meets an outage: no request is ever answered
InitOutage ==
    /\ store \in 0..1
    /\ plan = 2
    /\ selectedDate \in Dates
    /\ effective = NoIndices(selectedDate, <<0>>, <<0>>)
    /\ NotCalled

NextOutage ==
    \/ Call
    \/ CallAgain
    \/ NetworkRecovers
    \/ \E l \in Locs : AttemptErrors(l)
    \/ \E l \in Locs : AttemptTimesOut(l)
    \/ \E l \in Locs : TimerFires(l)
    \/ \E l \in Locs : Responds(l)
    \/ \E l \in Locs : BodiesRead(l)
    \/ Return

SpecOutage == InitOutage /\ [][NextOutage]_vars

\* ------------------------------------------- the effective index on its own

\* largest number of header rows tried
MaxOffset == 2

\* a header offset of a hall: left out, or a number of rows
HeaderOffsets == {<<>>} \cup {<<n>> : n \in 0..MaxOffset}

\* const morningHeaderOffset = hall.morningHeaderOffset || 0; ...;
\* const effectiveMorningDataIndex = (dayOfMonth - 1) + morningHeaderOffset; ...
ComputeIndices ==
    /\ effective.effectiveMorningDataIndex = <<>>
    /\ effective' =
           [effective EXCEPT
               !.effectiveMorningDataIndex =
                   <<EffectiveIndex(effective.date, OrZero(effective.morningHeaderOffset))>>,
               !.effectiveEveningDataIndex =
                   <<EffectiveIndex(effective.date, OrZero(effective.eveningHeaderOffset))>>]
    /\ UNCHANGED <<store, plan, selectedDate, callState, allResults, returned, br, calls,
                   previous, rn, app, hook>>

InitIndex ==
    /\ store = 1
    /\ plan = 1
    /\ selectedDate = NewDate(2025, 4, 21)
    /\ effective \in {NoIndices(NewDate(2025, 4, d), m, e) :
                          d \in 1..31, m \in HeaderOffsets, e \in HeaderOffsets}
    /\ NotCalled

NextIndex == ComputeIndices

SpecIndex == InitIndex /\ [][NextIndex]_vars

\* ------------------------------------- one sheet and day, every fault plan

InitRetry ==
    /\ store = 1
    /\ plan \in 0..NumPlans
    /\ selectedDate = MkDate(2025, 4, 18)
    /\ effective = NoIndices(selectedDate, <<0>>, <<0>>)
    /\ NotCalled

SpecRetry == InitRetry /\ [][Next]_vars

\* ------------------------------------------- one call of retryNetworkRequest

FetchVars == <<store, plan, selectedDate, callState, allResults, returned, br, calls,
               previous, effective, app, hook>>

\* retryNetworkRequest(requestFn, options): the first attempt is issued
CallRetryNetworkRequest ==
    /\ rn.pc = "idle"
    /\ rn' = [rn EXCEPT !.pc = "requesting"]
    /\ UNCHANGED FetchVars

\* await requestFn() settles. With data, a requestFn named fetchHallData has
\* the data cached first (cacheHallData computes the key from requestFn.date
\* before its try block); with an error the catch block runs
RequestSettles ==
    /\ rn.pc = "requesting"
    /\ LET outcome == rn.requestFn.script[rn.attempt + 1]
       IN  rn' = IF outcome = "data"
                 THEN IF rn.requestFn.name = "fetchHallData"
                      THEN IF rn.requestFn.hasDate THEN [rn EXCEPT !.pc = "caching"]
                           ELSE Catch(rn, UndefinedDate)
                      ELSE [rn EXCEPT !.pc = "returned", !.result = <<"data">>]
                 ELSE Catch(rn, MessageOf(outcome))
    /\ UNCHANGED FetchVars

\* AsyncStorage.setItem settles (a failure is only logged): the data is returned
CacheWritten ==
    /\ rn.pc = "caching"
    /\ rn' = [rn EXCEPT !.pc = "returned", !.result = <<"data">>,
                        !.cache = IF rn.storageFails THEN rn.cache ELSE <<"data">>,
                        !.ops = Append(rn.ops, [op |-> "write", attempt |-> rn.attempt])]
    /\ UNCHANGED FetchVars

\* AsyncStorage.getItem settles (null after a failure): the cached data is
\* returned if there is any
CacheLoaded ==
    /\ rn.pc = "loading"
    /\ LET cached == IF rn.storageFails THEN <<>> ELSE rn.cache
           r == [rn EXCEPT !.ops = Append(rn.ops, [op |-> "read", attempt |-> rn.attempt])]
       IN  rn' = IF cached # <<>> THEN [r EXCEPT !.pc = "returned", !.result = cached]
                 ELSE RethrowOrWait(r)
    /\ UNCHANGED FetchVars

\* the backoff delay is over: the next attempt is issued
DelayElapses ==
    /\ rn.pc = "waiting"
    /\ rn' = [rn EXCEPT !.pc = "requesting", !.attempt = rn.attempt + 1]
    /\ UNCHANGED FetchVars

InitCache ==
    /\ store = 1
    /\ plan = 1
    /\ selectedDate = MkDate(2025, 4, 18)
    /\ effective = NoIndices(selectedDate, <<0>>, <<0>>)
    /\ callState = "idle"
    /\ allResults = <<>>
    /\ returned = <<>>
    /\ br = [l \in Locs |-> Idle]
    /\ calls = 0
    /\ previous = <<>>
    /\ app = NoApp
    /\ hook = NoHook
    /\ rn \in {[NoRequest EXCEPT !.requestFn = [name |-> n, hasDate |-> h, script |-> s],
                                 !.maxRetries = o, !.os = p, !.storageFails = f, !.cache = c] :
                  n \in {"fetchHallData", ""}, h \in BOOLEAN,
                  s \in [1..defaultMaxRetries -> RequestOutcomes],
                  o \in RetryOptions, p \in {"android", "ios"}, f \in BOOLEAN,
                  c \in {<<>>, <<"cached">>}}

NextCache ==
    \/ CallRetryNetworkRequest
    \/ RequestSettles
    \/ CacheWritten
    \/ CacheLoaded
    \/ DelayElapses

SpecCache == InitCache /\ [][NextCache]_vars

\* -------------------- every sheet and day, healthy network or none at all

InitSheets ==
    /\ Init
    /\ plan \in 1..2

SpecSheets == InitSheets /\ [][Next]_vars

\* every attempt in flight settles (the 15 s timer sees to it), every backoff
\* timer fires and the continuation of a fulfilled Promise.all runs; nothing
\* bounds the time a body read takes
AttemptsSettleAndTimersFire ==
    /\ \A l \in Locs : WF_vars(AttemptErrors(l) \/ AttemptTimesOut(l) \/ Responds(l))
    /\ \A l \in Locs : WF_vars(TimerFires(l))
    /\ WF_vars(Return)

SpecFair == InitRetry /\ [][Next]_vars /\ AttemptsSettleAndTimersFire

\* ------------------------------------------------- the screen in operation

\* handlers suspended at the same time
MaxRunning == 2

AppVars == <<store, plan, selectedDate, callState, allResults, returned, br, calls, previous,
             effective, rn, hook>>

\* which of the three returns of App renders
Screen(a) ==
    IF a.isCheckingAuth THEN "checking"
    ELSE IF ~a.isAuthenticated THEN "password"
    ELSE "halls"

\* {networkError && (...)}: the panel with the retry and update buttons
ErrorPanel(a) == Screen(a) = "halls" /\ a.networkError

\* the FlatList of displayedHalls is rendered
ListShown(a) ==
    /\ Screen(a) = "halls"
    /\ ~a.loading
    /\ ~a.networkError
    /\ IF a.revision = "first" THEN a.halls # <<>> ELSE a.displayedHalls # <<>>

Without(running, i) == SubSeq(running, 1, i - 1) \o SubSeq(running, i + 1, Len(running))

\* a handler runs up to its first await
Starts(a, h) == [a EXCEPT !.running = Append(@, h)]

\* a handler runs on to its next await
Moves(a, i, pc) == [a EXCEPT !.running[i].pc = pc]

\* a handler runs to its end
Ends(a, i) == [a EXCEPT !.running = Without(@, i)]

\* Updates.reloadAsync(): the component is mounted anew
Reloaded(a) == Mounted(a.revision, a.dev, a.stored)

\* setHalls(list); setDisplayedHalls(list.slice(0, ITEMS_PER_PAGE))
Stored(a, list) ==
    [a EXCEPT !.halls = list, !.displayedHalls = slice(list, 0, ITEMS_PER_PAGE)]

\* the catch block of a fetching handler
Failed(a, message) ==
    [a EXCEPT !.networkError = TRUE, !.errorType = detectErrorType(message)]

\* mutant: the handler ends without a finally block
FinallyNothing(a) == a

\* finally { setLoading(false) }
Finally(a) == [a EXCEPT !.loading = FALSE]

\* handleFind with the list its fetchHallData(date) resolved to
Found(a, h, hallData) ==
    IF Len(hallData) > 0
    THEN [Stored(a, OrganizedOnce(a.revision, hallData, h.date)) EXCEPT
             !.loading = IF a.revision = "first" THEN FALSE ELSE @]
    ELSE IF a.revision = "first"
    THEN [a EXCEPT !.networkError = TRUE, !.errorType = "network"]
    ELSE [a EXCEPT !.halls = <<>>, !.displayedHalls = <<>>]

\* handleFind after await fetchHallData(date)
FindSettled(a, h, outcome) ==
    LET hallData == IF outcome.kind = "records" THEN Fetched[store][h.date] ELSE <<>>
    IN  Finally(IF outcome.kind = "rejected" THEN Failed(a, outcome.message)
                ELSE Found(a, h, hallData))

\* handleNetworkErrorRetry after await fetchHallData(date)
NetworkErrorRetrySettled(a, h, outcome) ==
    LET data == IF outcome.kind = "records" THEN Fetched[store][h.date] ELSE <<>>
    IN  Finally(IF outcome.kind = "rejected" THEN Failed(a, outcome.message)
                ELSE [Stored(a, data) EXCEPT !.page = 1, !.networkError = FALSE,
                                             !.errorType = "null"])

\* handleConnectionRetry after await fetchHallData(date)
ConnectionRetrySettled(a, h, outcome) ==
    LET hallData == IF outcome.kind = "records" THEN Fetched[store][h.date] ELSE <<>>
    IN  Finally(IF outcome.kind = "rejected" THEN Failed(a, outcome.message)
                ELSE IF Len(hallData) > 0
                THEN [Stored(a, OrganizedOnce(a.revision, hallData, h.date)) EXCEPT
                         !.loading = IF a.revision = "first" THEN FALSE ELSE @]
                ELSE [a EXCEPT !.networkError = TRUE, !.errorType = "network"])

\* checkAuthStatus: AsyncStorage.getItem settles
AuthStatusLoaded ==
    /\ \E i \in 1..Len(app.running), ok \in BOOLEAN :
          /\ app.running[i].name = "checkAuthStatus"
          /\ app' = Ends([app EXCEPT !.isAuthenticated = @ \/ (ok /\ app.stored = "true"),
                                     !.isCheckingAuth = FALSE], i)
    /\ UNCHANGED AppVars

\* onChangeText={setPassword}
ChangePassword ==
    /\ Screen(app) = "password"
    /\ \E p \in Passwords \ {app.password} : app' = [app EXCEPT !.password = p]
    /\ UNCHANGED AppVars

\* the button of the password screen is pressed: handlePasswordSubmit in the
\* first revision, the inline handler (with its 500 ms timer) in the later one
SubmitPassword ==
    /\ Screen(app) = "password"
    /\ Len(app.running) < MaxRunning
    /\ app.revision = "later" => ~app.loading
    /\ app' = IF app.revision = "first"
              THEN IF PasswordMatches(app.password)
                   THEN Starts(app, Handler("handlePasswordSubmit", "setItem", Today, ""))
                   ELSE [app EXCEPT !.authError = "Incorrect password. Please try again."]
              ELSE Starts([app EXCEPT !.loading = TRUE, !.authError = ""],
                          Handler("unlock", "timer", Today, app.password))
    /\ UNCHANGED AppVars

\* later revision: the 500 ms timer compares the password the handler was
\* created with
PasswordCompared ==
    /\ \E i \in 1..Len(app.running) :
          /\ app.running[i].pc = "timer"
          /\ app' = IF PasswordMatches(app.running[i].password)
                    THEN Moves(app, i, "setItem")
                    ELSE Ends(Finally([app EXCEPT
                                  !.authError = "Invalid password, please try again."]), i)
    /\ UNCHANGED AppVars

\* AsyncStorage.setItem(AUTH_STORAGE_KEY, 'true') settles
FlagStored ==
    /\ \E i \in 1..Len(app.running), ok \in BOOLEAN :
          /\ app.running[i].pc = "setItem"
          /\ LET a == IF ok THEN [app EXCEPT !.stored = "true", !.isAuthenticated = TRUE]
                      ELSE app
             IN  app' = Ends(IF app.revision = "first"
                             THEN IF ok THEN [a EXCEPT !.password = "", !.authError = ""]
                                  ELSE [a EXCEPT !.authError =
                                            "Authentication failed. Please try again."]
                             ELSE Finally(IF ok THEN a
                                          ELSE [a EXCEPT !.authError = "setItem failed"]), i)
    /\ UNCHANGED AppVars

\* handleDateChange (android) or handleConfirmDate (ios): setDate
PickDate ==
    /\ Screen(app) = "halls"
    /\ \E d \in PickedDates \ {app.date} : app' = [app EXCEPT !.date = d]
    /\ UNCHANGED AppVars

\* the Find button (disabled={loading}): handleFind up to await fetchHallData
PressFind ==
    /\ Screen(app) = "halls"
    /\ ~app.loading
    /\ Len(app.running) < MaxRunning
    /\ LET a == [app EXCEPT !.loading = TRUE, !.page = 1, !.networkError = FALSE,
                            !.errorType = "null"]
       IN  app' = Starts(IF app.revision = "first" THEN a
                         ELSE [a EXCEPT !.displayedHalls = <<>>, !.halls = <<>>],
                         Handler("handleFind", "fetch", app.date, ""))
    /\ UNCHANGED AppVars

\* the retry button of the error panel, up to the first await: in the first
\* revision it runs handleNetworkErrorRetry, in the later one
\* handleConnectionRetry and is disabled={loading}
PressRetry ==
    /\ ErrorPanel(app)
    /\ Len(app.running) < MaxRunning
    /\ app.revision = "later" => ~app.loading
    /\ app' = IF app.revision = "first"
              THEN Starts([app EXCEPT !.loading = TRUE],
                          Handler("handleNetworkErrorRetry",
                                  IF app.errorType = "java-io" THEN "javaio" ELSE "verify",
                                  app.date, ""))
              ELSE Starts([app EXCEPT !.networkError = FALSE, !.loading = TRUE,
                                      !.displayedHalls = <<>>, !.halls = <<>>,
                                      !.errorType = "null"],
                          Handler("handleConnectionRetry",
                                  IF app.errorType = "java-io" THEN "javaio"
                                  ELSE IF app.dev THEN "verify" ELSE "fetch",
                                  app.date, ""))
    /\ UNCHANGED AppVars

\* the Check for Updates button of the error panel (disabled={loading} in the
\* later revision): handleCheckForUpdates up to await checkForUpdatesAndReload
PressCheckForUpdates ==
    /\ ErrorPanel(app)
    /\ Len(app.running) < MaxRunning
    /\ app.revision = "later" => ~app.loading
    /\ app' = Starts([app EXCEPT !.loading = TRUE],
                     Handler("handleCheckForUpdates", "updates", Today, ""))
    /\ UNCHANGED AppVars

\* await handleJavaIOError() settles: outside development it reloads the app
\* (or gives false when that fails), in development it gives whether the
\* development server answers
JavaIOHandled ==
    /\ \E i \in 1..Len(app.running), resolved \in BOOLEAN :
          /\ app.running[i].pc = "javaio"
          /\ app' = IF ~app.dev /\ resolved THEN Reloaded(app)
                    ELSE IF app.running[i].name = "handleNetworkErrorRetry"
                    THEN Moves(app, i, "verify")
                    ELSE IF resolved THEN Moves(app, i, IF app.dev THEN "verify" ELSE "fetch")
                    ELSE Ends(Finally(Failed(app, FailedToResolve)), i)
    /\ UNCHANGED AppVars

\* await verifyDevServerConnection() settles (its answer is only logged)
ConnectionVerified ==
    /\ \E i \in 1..Len(app.running) :
          /\ app.running[i].pc = "verify"
          /\ app' = Moves(app, i, "fetch")
    /\ UNCHANGED AppVars

\* await fetchHallData(date) settles in a handler: the rest of the handler runs
FetchSettles ==
    /\ \E i \in 1..Len(app.running), outcome \in FetchOutcomes :
          /\ app.running[i].pc = "fetch"
          /\ LET h == app.running[i]
             IN  app' = Ends(CASE h.name = "handleFind" ->
                                    FindSettled(app, h, outcome)
                               [] h.name = "handleNetworkErrorRetry" ->
                                    NetworkErrorRetrySettled(app, h, outcome)
                               [] h.name = "handleConnectionRetry" ->
                                    ConnectionRetrySettled(app, h, outcome), i)
    /\ UNCHANGED AppVars

\* await checkForUpdatesAndReload() settles: true, false, or (outside
\* development, an update being there) the app reloads
UpdatesChecked ==
    /\ \E i \in 1..Len(app.running), result \in {"true", "false", "reload"} :
          /\ app.running[i].pc = "updates"
          /\ result = "reload" => ~app.dev
          /\ app' = IF result = "reload" THEN Reloaded(app) ELSE Ends(Finally(app), i)
    /\ UNCHANGED AppVars

\* onEndReached={loadMore}
loadMore ==
    /\ ListShown(app)
    /\ LET startIndex == app.page * ITEMS_PER_PAGE
           newItems == slice(app.halls, startIndex, startIndex + ITEMS_PER_PAGE)
       IN  app' = IF Len(app.displayedHalls) >= Len(app.halls) THEN app
                  ELSE IF app.revision = "later" /\ newItems = <<>> THEN app
                  ELSE [app EXCEPT !.displayedHalls = @ \o newItems, !.page = @ + 1]
    /\ UNCHANGED AppVars

InitApp ==
    /\ store = 1
    /\ plan = 1
    /\ selectedDate = Today
    /\ effective = NoIndices(selectedDate, <<0>>, <<0>>)
    /\ callState = "idle"
    /\ allResults = <<>>
    /\ returned = <<>>
    /\ br = [l \in Locs |-> Idle]
    /\ calls = 0
    /\ previous = <<>>
    /\ rn = NoRequest
    /\ hook = NoHook
    /\ app \in {Mounted(r, d, f) : r \in Revisions, d \in BOOLEAN, f \in {"null", "true"}}

NextApp ==
    \/ AuthStatusLoaded
    \/ ChangePassword
    \/ SubmitPassword
    \/ PasswordCompared
    \/ FlagStored
    \/ PickDate
    \/ PressFind
    \/ PressRetry
    \/ PressCheckForUpdates
    \/ JavaIOHandled
    \/ ConnectionVerified
    \/ FetchSettles
    \/ UpdatesChecked
    \/ loadMore

SpecApp == InitApp /\ [][NextApp]_vars

\* an operation some handler awaits settles and the handler runs on
AwaitSettles ==
    \/ AuthStatusLoaded
    \/ PasswordCompared
    \/ FlagStored
    \/ JavaIOHandled
    \/ ConnectionVerified
    \/ FetchSettles
    \/ UpdatesChecked

\* every awaited operation (storage access, timer, request with its timeout,
\* update check) settles sooner or later
SpecAppLive == SpecApp /\ WF_vars(AwaitSettles)

\* ------------------------------------------------- useHallData in operation

HookVars == <<store, plan, selectedDate, callState, allResults, returned, br, calls, previous,
              effective, rn, app>>

\* the component renders with another date: the effect runs loadData again
\* (nothing ends the runs started before)
SelectedDateChanges ==
    /\ Len(hook.running) < MaxRunning
    /\ \E d \in Dates \ {hook.selectedDate} :
          hook' = [hook EXCEPT !.selectedDate = d, !.loading = TRUE, !.error = "null",
                               !.running = Append([i \in 1..Len(@) |->
                                                      [@[i] EXCEPT !.latest = FALSE]],
                                                  LoadData(d)),
                               !.fromLatest = FALSE, !.latestOutcome = "pending"]
    /\ UNCHANGED HookVars

\* await fetchHallData(selectedDate) settles in a run of loadData: setHalls
\* or setError, then setLoading(false)
LoadDataSettles ==
    /\ \E i \in 1..Len(hook.running), outcome \in FetchOutcomes :
          LET run == hook.running[i]
              h == [hook EXCEPT !.running = Without(@, i), !.loading = FALSE,
                                !.latestOutcome = IF run.latest THEN outcome.kind ELSE @]
          IN  hook' = IF outcome.kind = "rejected"
                      THEN [h EXCEPT !.error = "Failed to load hall data"]
                      ELSE [h EXCEPT !.halls = IF outcome.kind = "records"
                                               THEN Fetched[store][run.date] ELSE <<>>,
                                     !.fromLatest = run.latest]
    /\ UNCHANGED HookVars

InitHook ==
    /\ store \in 1..NumStores
    /\ plan = 1
    /\ selectedDate = Today
    /\ effective = NoIndices(selectedDate, <<0>>, <<0>>)
    /\ callState = "idle"
    /\ allResults = <<>>
    /\ returned = <<>>
    /\ br = [l \in Locs |-> Idle]
    /\ calls = 0
    /\ previous = <<>>
    /\ rn = NoRequest
    /\ app = NoApp
    /\ hook \in {MountedHook(d) : d \in Dates}

NextHook ==
    \/ SelectedDateChanges
    \/ LoadDataSettles

SpecHook == InitHook /\ [][NextHook]_vars

\* ------------------------- processHallData on the records in any order

Rotated(list, k) == SubSeq(list, k + 1, Len(list)) \o SubSeq(list, 1, k)

Reversed(list) == [i \in 1..Len(list) |-> list[Len(list) + 1 - i]]

\* the fetched records of a day in some other order, or with one of them
\* missing
InputLists(v, date) ==
    LET sorted == Fetched[v][date]
    IN  {Rotated(sorted, k) : k \in 0..(Len(sorted) - 1)}
            \cup {Reversed(Rotated(sorted, k)) : k \in 0..(Len(sorted) - 1)}
            \cup {Without(sorted, k) : k \in 1..Len(sorted)}

\* await fetchHallData(date) gives handleFind the list the call resolved to
FindReturns ==
    /\ callState = "resolved"
    /\ \E i \in 1..Len(app.running) :
          /\ app.running[i].name = "handleFind"
          /\ app.running[i].pc = "fetch"
          /\ app' = Ends(Finally(Found(app, app.running[i], returned)), i)
    /\ UNCHANGED AppVars

\* handleFind waits for a call that has resolved to one of the input lists
InitOrganize ==
    /\ store \in 1..NumStores
    /\ plan = 1
    /\ selectedDate = Today
    /\ effective = NoIndices(selectedDate, <<0>>, <<0>>)
    /\ callState = "resolved"
    /\ allResults = <<>>
    /\ returned \in InputLists(store, Today)
    /\ br = [l \in Locs |-> Idle]
    /\ calls = 1
    /\ previous = <<>>
    /\ rn = NoRequest
    /\ hook = NoHook
    /\ app \in {[Mounted(r, FALSE, "true") EXCEPT
                    !.isCheckingAuth = FALSE, !.isAuthenticated = TRUE, !.loading = TRUE,
                    !.running = <<Handler("handleFind", "fetch", Today, "")>>] :
                r \in Revisions}

NextOrganize == FindReturns

SpecOrganize == InitOrganize /\ [][NextOrganize]_vars

\* ================================================================ properties

\* the configured halls in the order a sorted list shows them
ExpectedOrder == << <<Ravet, 1>>, <<Ravet, 3>>, <<Ravet, 2>>,
                    <<Tathawade, 1>>, <<Tathawade, 2>>, <<Tathawade, 4>>, <<Tathawade, 3>> >>

ConfiguredHall(k) == LOCATIONS[ExpectedOrder[k][1]][ExpectedOrder[k][2]]

WellFormed(r) ==
    /\ DOMAIN r = {"date", "location", "hallName", "timeSlot", "status"}
    /\ r.date = formatDate(selectedDate)
    /\ \E k \in 1..Len(ExpectedOrder) :
           r.location = ExpectedOrder[k][1] /\ r.hallName = ConfiguredHall(k).name
    /\ r.timeSlot \in Slots
    /\ r.status \in {"Available", "Booked"}

\* every attempt fetchWithRetry makes for range column c is a rejected fetch
Exhausted(c) == \A k \in 0..maxRetries : Outcome(plan, c, k) \in {"error", "timeout"}

\* the response fetchWithRetry returns for range column c, if any
FinalResponse(c) ==
    IF Exhausted(c) THEN "failed"
    ELSE Outcome(plan, c,
                 CHOOSE k \in 0..maxRetries :
                     /\ Outcome(plan, c, k) \notin {"error", "timeout"}
                     /\ \A j \in 0..(k - 1) : Outcome(plan, c, j) \in {"error", "timeout"})

\* indices of the returned records of one hall and slot
Positions(list, loc, hallName, slot) ==
    {i \in 1..Len(list) :
        list[i].location = loc /\ list[i].hallName = hallName /\ list[i].timeSlot = slot}

RangeFor(hall, slot) == IF slot = "Morning" THEN hall.morningRange ELSE hall.eveningRange

OffsetFor(hall, slot) ==
    IF slot = "Morning" THEN hall.morningHeaderOffset[1] ELSE hall.eveningHeaderOffset[1]

\* the raw row the sheet holds for a hall's slot on the selected day
\* (<<>> beyond the rows the store answers)
SheetRow(hall, slot) ==
    LET range == RangeFor(hall, slot)
        index == (selectedDate.day - 1) + OffsetFor(hall, slot)
    IN  IF index < StoreRowCount(store, range)
        THEN StoreRow(store, getSheetDetails(selectedDate).sheetName, range.col, index)
        ELSE <<>>

\* C1: fetchHallData never rejects: whatever the attempts' outcomes, the call
\* is never left rejected and what it resolves to is a list of records.
C1_NeverRejects ==
    /\ callState # "rejected"
    /\ callState = "resolved" => \A i \in 1..Len(returned) : WellFormed(returned[i])

\* a call has resolved although, among its requests, one was never answered,
\* one was answered non-2xx and one with an unreadable body
C1_Witness ==
    /\ callState = "resolved"
    /\ Len(returned) > 0
    /\ \E k1, k2, k3 \in 1..Len(ExpectedOrder) :
           /\ FinalResponse(ConfiguredHall(k1).eveningRange.col) = "failed"
           /\ FinalResponse(ConfiguredHall(k1).morningRange.col) = "ok"
           /\ FinalResponse(ConfiguredHall(k2).morningRange.col) = "nonok"
           /\ FinalResponse(ConfiguredHall(k3).eveningRange.col) = "badbody"
           /\ FinalResponse(ConfiguredHall(k3).morningRange.col) = "ok"

\* C2: for a valid date the returned list holds exactly one Morning and one
\* Evening record per configured hall and nothing else: 14 records.
C2_CompleteGrid ==
    (callState = "resolved" /\ calls > 0) =>
        /\ Len(returned) = 14
        /\ Len(returned) = 2 * Len(ExpectedOrder)
        /\ \A k \in 1..Len(ExpectedOrder), sl \in Slots :
               Cardinality(Positions(returned, ExpectedOrder[k][1],
                                     ConfiguredHall(k).name, sl)) = 1

\* the grid is complete although one hall failed after its morning record was
\* appended and another hall's fetch failed altogether
C2_Witness ==
    /\ callState = "resolved"
    /\ Len(returned) = 14
    /\ \E k \in 1..Len(ExpectedOrder) :
           /\ FinalResponse(ConfiguredHall(k).morningRange.col) = "ok"
           /\ FinalResponse(ConfiguredHall(k).eveningRange.col) = "ok"
           /\ SheetRow(ConfiguredHall(k), "Morning") # <<>>
           /\ SheetRow(ConfiguredHall(k), "Morning")[1].kind = "string"
           /\ SheetRow(ConfiguredHall(k), "Evening") # <<>>
           /\ SheetRow(ConfiguredHall(k), "Evening")[1].kind = "number"
    /\ \E k \in 1..Len(ExpectedOrder) :
           FinalResponse(ConfiguredHall(k).morningRange.col) = "failed"

\* the hall a record belongs to
HallOfRecord(r) ==
    ConfiguredHall(CHOOSE k \in 1..Len(ExpectedOrder) :
        r.location = ExpectedOrder[k][1] /\ r.hallName = ConfiguredHall(k).name)

\* raw cell texts that read as vacant once trimmed and lowercased
VacantTexts == {<<"V","A","C">>, <<>>, <<" ","v","a","c","a","n","t"," ">>,
                <<"v","a","c","c">>, <<" "," ">>, <<"v","a","c">>,
                <<"V","a","c","a","n","t">>}

\* the sheet shows a vacant text in the first cell of the row of (hall, slot)
ReadsVacant(hall, slot) ==
    /\ SheetRow(hall, slot) # <<>>
    /\ SheetRow(hall, slot)[1].kind = "string"
    /\ SheetRow(hall, slot)[1].chars \in VacantTexts

\* C3: fail-safe: a returned record is Available only if the fetch of its own
\* range ended with a 2xx answer whose row at index (day-1)+offset starts with
\* a vacant text; after a failed fetch, a missing row or cell, or any other
\* text, the record is Booked.
C3_FailSafe ==
    callState = "resolved" =>
        \A i \in 1..Len(returned) :
            returned[i].status = "Available" =>
                /\ FinalResponse(RangeFor(HallOfRecord(returned[i]), returned[i].timeSlot).col) = "ok"
                /\ ReadsVacant(HallOfRecord(returned[i]), returned[i].timeSlot)

\* a list with an Available record, a record Booked because its row is
\* missing, and a record Booked although the sheet reads vacant, its fetch
\* having failed
C3_Witness ==
    /\ callState = "resolved"
    /\ \E i, j, k \in 1..Len(returned) :
           /\ returned[i].status = "Available"
           /\ returned[j].status = "Booked"
           /\ FinalResponse(RangeFor(HallOfRecord(returned[j]), returned[j].timeSlot).col) = "ok"
           /\ SheetRow(HallOfRecord(returned[j]), returned[j].timeSlot) = <<>>
           /\ returned[k].status = "Booked"
           /\ FinalResponse(RangeFor(HallOfRecord(returned[k]), returned[k].timeSlot).col) # "ok"
           /\ ReadsVacant(HallOfRecord(returned[k]), returned[k].timeSlot)

\* the status the interpretation table gives a raw cell text
TableStatus(text) ==
    CASE text \in {<<"V","A","C">>, <<"v","a","c">>, <<"v","a","c","c">>,
                   <<" ","v","a","c","a","n","t"," ">>, <<"V","a","c","a","n","t">>} -> "Available"
      [] text \in {<<>>, <<" "," ">>} -> "Available"
      [] text \in {<<"o","c","c">>, <<"O","c","c","u","p","i","e","d">>} -> "Booked"
      [] OTHER -> "Booked"

\* processSlot ran for (hall, slot): both fetches answered 2xx with a readable
\* body and no cell up to this slot made it throw
Processed(hall, slot) ==
    LET IsNumber(sl) == SheetRow(hall, sl) # <<>> /\ SheetRow(hall, sl)[1].kind = "number"
    IN  /\ FinalResponse(hall.morningRange.col) = "ok"
        /\ FinalResponse(hall.eveningRange.col) = "ok"
        /\ ~IsNumber("Morning")
        /\ slot = "Evening" => ~IsNumber("Evening")

\* C4: the status processSlot records is the table's status of the cell it
\* was given (Booked for undefined), whatever the location, hall and slot.
C4_Interpretation ==
    callState = "resolved" => \A i \in 1..Len(allResults) :
        LET r == allResults[i]
            hall == HallOfRecord(r)
        IN  Processed(hall, r.timeSlot) =>
                r.status = IF SheetRow(hall, r.timeSlot) = <<>> THEN "Booked"
                           ELSE TableStatus(SheetRow(hall, r.timeSlot)[1].chars)

\* processSlot has recorded Available for " vacant ", Booked for "Occupied"
\* and Booked for an undefined value
C4_Witness ==
    \E i, j, k \in 1..Len(allResults) :
        /\ Processed(HallOfRecord(allResults[i]), allResults[i].timeSlot)
        /\ SheetRow(HallOfRecord(allResults[i]), allResults[i].timeSlot)
               = <<Str(<<" ","v","a","c","a","n","t"," ">>)>>
        /\ allResults[i].status = "Available"
        /\ Processed(HallOfRecord(allResults[j]), allResults[j].timeSlot)
        /\ SheetRow(HallOfRecord(allResults[j]), allResults[j].timeSlot)
               = <<Str(<<"O","c","c","u","p","i","e","d">>)>>
        /\ allResults[j].status = "Booked"
        /\ Processed(HallOfRecord(allResults[k]), allResults[k].timeSlot)
        /\ SheetRow(HallOfRecord(allResults[k]), allResults[k].timeSlot) = <<>>
        /\ allResults[k].status = "Booked"

\* C5: the returned list is ordered by location, then hall name, and each
\* hall's Morning record is immediately followed by its Evening record.
C5_Sorted ==
    (callState = "resolved" /\ calls > 0) =>
        /\ Len(returned) = 2 * Len(ExpectedOrder)
        /\ \A k \in 1..Len(ExpectedOrder) :
               /\ returned[2 * k - 1].location = ExpectedOrder[k][1]
               /\ returned[2 * k - 1].hallName = ConfiguredHall(k).name
               /\ returned[2 * k - 1].timeSlot = "Morning"
               /\ returned[2 * k].location = ExpectedOrder[k][1]
               /\ returned[2 * k].hallName = ConfiguredHall(k).name
               /\ returned[2 * k].timeSlot = "Evening"

\* the sort had work to do: the records arrived in another order, a
\* Tathawade hall first
C5_Witness ==
    /\ callState = "resolved"
    /\ Len(returned) = 14
    /\ returned # allResults
    /\ allResults[1].location = Tathawade
    /\ allResults[3].location = Ravet

\* the two statuses of hall k that follow from the requests' outcomes alone
HallStatuses(k) ==
    LET hall == ConfiguredHall(k)
        m == FinalResponse(hall.morningRange.col)
        e == IF m = "failed" THEN "none" ELSE FinalResponse(hall.eveningRange.col)
        sheet == getSheetDetails(selectedDate).sheetName
        ms == SlotStatus(ExtractValue(StoreBody(store, sheet, hall.morningRange),
                                      EffectiveIndex(selectedDate, OrZero(hall.morningHeaderOffset))))
        es == SlotStatus(ExtractValue(StoreBody(store, sheet, hall.eveningRange),
                                      EffectiveIndex(selectedDate, OrZero(hall.eveningHeaderOffset))))
    IN  IF m # "ok" \/ e # "ok" \/ ms = "TypeError" THEN <<"Booked", "Booked">>
        ELSE IF es = "TypeError" THEN <<ms, "Booked">>
        ELSE <<ms, es>>

\* the list that follows from the date, the sheet and the requests' outcomes
OutcomeList ==
    [i \in 1..(2 * Len(ExpectedOrder)) |->
        LET k == (i + 1) \div 2
        IN  Rec(selectedDate, ExpectedOrder[k][1], ConfiguredHall(k).name,
                IF i % 2 = 1 THEN "Morning" ELSE "Evening",
                HallStatuses(k)[2 - (i % 2)])]

\* C6: the returned list is a function of the requests' outcomes: whatever
\* the order in which the branches' requests complete, it is the same list.
C6_OrderInsensitive ==
    (callState = "resolved" /\ calls > 0) => returned = OutcomeList

\* the branches have interleaved: records of the two locations alternate in
\* arrival order, the last to arrive being a Ravet hall's
C6_Witness ==
    /\ callState = "resolved"
    /\ Len(allResults) = 14
    /\ allResults[1].location = Ravet
    /\ allResults[3].location = Tathawade
    /\ allResults[5].location = Ravet
    /\ allResults[14].location = Ravet
    /\ plan > 2

\* C7: a second call with the same date, the sheet unchanged and every
\* request succeeding, resolves to the list the first call resolved to.
C7_Idempotent ==
    (calls >= 2 /\ callState = "resolved") => returned = previous

\* the second call has resolved, to a full list with an Available record,
\* its records having arrived in another order than the returned one
C7_Witness ==
    /\ calls = 2
    /\ callState = "resolved"
    /\ Len(returned) = 14
    /\ returned # allResults
    /\ \E i \in 1..Len(returned) : returned[i].status = "Available"

\* C8: when every attempt of a hall's morning or evening request fails, both
\* records of the hall are Booked and the call does not reject.
C8_ExhaustedHallBooked ==
    /\ callState # "rejected"
    /\ callState = "resolved" =>
           \A k \in 1..Len(ExpectedOrder) :
               (Exhausted(ConfiguredHall(k).morningRange.col)
                    \/ Exhausted(ConfiguredHall(k).eveningRange.col)) =>
                   \A sl \in Slots :
                       LET at == Positions(returned, ExpectedOrder[k][1],
                                           ConfiguredHall(k).name, sl)
                       IN  at # {} /\ \A i \in at : returned[i].status = "Booked"

\* a hall whose morning request succeeded on a sheet that reads vacant is
\* returned Booked, every attempt of its evening request having failed
C8_Witness ==
    /\ callState = "resolved"
    /\ \E k \in 1..Len(ExpectedOrder) :
           /\ FinalResponse(ConfiguredHall(k).morningRange.col) = "ok"
           /\ Exhausted(ConfiguredHall(k).eveningRange.col)
           /\ ReadsVacant(ConfiguredHall(k), "Morning")
           /\ \E i \in 1..Len(returned) :
                  /\ returned[i].hallName = ConfiguredHall(k).name
                  /\ returned[i].timeSlot = "Morning"
                  /\ returned[i].status = "Booked"

\* C9: an attempt answered with a non-2xx status is retried like a failed
\* one: unless it was the last attempt allowed, the backoff wait follows.
C9_NonOkRetried ==
    [][\A l \in Locs :
          (/\ callState = "running"
           /\ br[l].pc = "inflight"
           /\ OutcomeOf(l) = "nonok"
           /\ br[l].retryAttempt < maxRetries
           /\ br'[l] # br[l]) => br'[l].pc = "backoff"]_vars

\* the wait before retry number k
WaitBefore(k) == CASE k = 1 -> 2000 [] k = 2 -> 4000 [] k = 3 -> 8000

\* C10: a range fetch makes at most 4 attempts, none after an attempt that
\* did not fail, and waits min(2000 * 2^(k-1), 10000) ms plus less than
\* 1000 ms before retry number k.
C10_RetryPolicy ==
    /\ [](\A l \in Locs :
            /\ br[l].retryAttempt + 1 <= 4
            /\ br[l].pc = "backoff" =>
                   /\ br[l].retryAttempt + 1 \in 1..3
                   /\ br[l].delay >= WaitBefore(br[l].retryAttempt + 1)
                   /\ br[l].delay < WaitBefore(br[l].retryAttempt + 1) + 1000)
    /\ [][\A l \in Locs :
            (/\ br[l].pc = "inflight"
             /\ OutcomeOf(l) \notin {"error", "timeout"}
             /\ br'[l] # br[l]) =>
                ~(/\ br'[l].hall = br[l].hall
                  /\ br'[l].slot = br[l].slot
                  /\ br'[l].pc \in {"inflight", "backoff"})]_vars
    /\ [][\A l \in Locs :
            (br'[l] # br[l] /\ br'[l].pc = "inflight" /\ br'[l].retryAttempt > 0) =>
                /\ br[l].pc = "backoff"
                /\ br'[l].retryAttempt = br[l].retryAttempt + 1]_vars

\* a branch waits 8999 ms before the third retry of a request
C10_Witness ==
    \E l \in Locs :
        /\ br[l].pc = "backoff"
        /\ br[l].retryAttempt = 2
        /\ br[l].delay = 8999

\* C13: for a Date built from a day outside 1..daysInMonth of its month (day
\* 31 of a 30-day month), the call resolves to the empty list at once and no
\* request is issued.
C13_OutOfRangeEmpty ==
    \A a \in DateArguments :
        (/\ (a[3] < 1 \/ a[3] > DaysInMonth(a[1], a[2]))
         /\ selectedDate = NewDate(a[1], a[2], a[3])
         /\ calls > 0) =>
            /\ callState = "resolved"
            /\ returned = <<>>
            /\ \A l \in Locs : br[l].pc = "idle"

\* C14: for a valid date the call never resolves to the empty list, whatever
\* the outcomes of the requests and whatever a cell holds.
C14_NonEmptyForValidDate ==
    (/\ callState = "resolved"
     /\ calls > 0
     /\ selectedDate.day >= 1
     /\ selectedDate.day <= DaysInMonth(selectedDate.year, selectedDate.month)) =>
        returned # <<>>

\* a call has resolved to a non-empty list although no request of any hall
\* was ever answered
C14_Witness ==
    /\ callState = "resolved"
    /\ calls > 0
    /\ \A k \in 1..Len(ExpectedOrder) : Exhausted(ConfiguredHall(k).morningRange.col)
    /\ returned # <<>>

\* on the selected day the sheet reads an occupied synonym for every hall
\* and slot
EveryCellOccupied ==
    \A k \in 1..Len(ExpectedOrder), sl \in Slots :
        LET row == SheetRow(ConfiguredHall(k), sl)
        IN  /\ row # <<>>
            /\ row[1].kind = "string"
            /\ toLowerCase(trim(row[1].chars)) \in OccupiedWords

\* C15: the list returned for a date during an outage (every range fetch
\* failing after all retries) is the list returned for that date when every
\* fetch succeeds and every consulted cell reads an occupied synonym: the
\* second call, made once the network is back, resolves to the first one's list.
C15_OutageLooksBooked ==
    (/\ calls = 2
     /\ plan = 1
     /\ callState = "resolved"
     /\ EveryCellOccupied) =>
        returned = previous

\* the call made after the outage has resolved from a fully booked sheet, to
\* the 14 records the call made during the outage had resolved to
C15_Witness ==
    /\ calls = 2
    /\ plan = 1
    /\ callState = "resolved"
    /\ EveryCellOccupied
    /\ Len(previous) = 14
    /\ Len(allResults) = 14
    /\ returned = previous

\* the column the configuration gives a hall's slot
ConfiguredColumn(hallName, slot) ==
    LET pair == CASE hallName = "Aster" -> <<"B", "C">>
                  [] hallName = "Grand" -> <<"D", "E">>
                  [] hallName = "Tulip" -> <<"F", "G">>
                  [] hallName = "Lotus" -> <<"H", "I">>
                  [] hallName = "Agastya" -> <<"L", "M">>
                  [] hallName = "Vyas" -> <<"N", "O">>
                  [] hallName = "Lawn" -> <<"P", "Q">>
    IN  IF slot = "Morning" THEN pair[1] ELSE pair[2]

\* the requested date as the records show it, and its sheet tab
RequestedDateText ==
    CASE selectedDate = MkDate(2025, 4, 18) -> <<"2","0","2","5","-","0","5","-","1","8">>
      [] selectedDate = MkDate(2025, 4, 31) -> <<"2","0","2","5","-","0","5","-","3","1">>
      [] selectedDate = MkDate(2025, 5, 1) -> <<"2","0","2","5","-","0","6","-","0","1">>

RequestedSheet == IF selectedDate.month = 4 THEN <<"MAY", 2025>> ELSE <<"JUN", 2025>>

\* the status the sheet's cell of column c on the selected day stands for
StatusInColumn(c) ==
    LET index == selectedDate.day - 1
        row == IF index < StoreRowCount(store, Rng(c, 4, 33))
               THEN StoreRow(store, RequestedSheet, c, index) ELSE <<>>
    IN  IF row = <<>> THEN "Booked" ELSE TableStatus(row[1].chars)

\* C16: when both range fetches of a hall succeed, each of its records
\* carries the requested date and the status read from the column configured
\* for the record's own hall and time slot (Morning from morningRange,
\* Evening from eveningRange).
C16_OwnRangeAndDate ==
    callState = "resolved" =>
        \A i \in 1..Len(returned) :
            LET r == returned[i] IN
            Processed(HallOfRecord(r), r.timeSlot) =>
                /\ r.date = RequestedDateText
                /\ r.status = StatusInColumn(ConfiguredColumn(r.hallName, r.timeSlot))

\* 'VAC' in the row of 2025-06-01 of Aster's morning column B, its evening
\* column C reading otherwise: the returned list holds the record
\* {2025-06-01, Tathawade, Aster, Morning, Available} and Aster's evening is Booked
C16_Witness ==
    /\ callState = "resolved"
    /\ selectedDate = MkDate(2025, 5, 1)
    /\ FinalResponse("B") = "ok"
    /\ FinalResponse("C") = "ok"
    /\ StoreRow(store, <<"JUN", 2025>>, "B", 0) = <<Str(<<"V","A","C">>)>>
    /\ \E i, j \in 1..Len(returned) :
           /\ returned[i] = [date |-> <<"2","0","2","5","-","0","6","-","0","1">>,
                              location |-> Tathawade, hallName |-> "Aster",
                              timeSlot |-> "Morning", status |-> "Available"]
           /\ returned[j] = [date |-> <<"2","0","2","5","-","0","6","-","0","1">>,
                              location |-> Tathawade, hallName |-> "Aster",
                              timeSlot |-> "Evening", status |-> "Booked"]

\* a request of the hall that branch l is at is outstanding (in flight, or
\* waiting for its retry) and it is the morning one
MorningOutstanding(l) ==
    /\ callState = "running"
    /\ br[l].pc \in {"inflight", "backoff"}
    /\ br[l].slot = "Morning"

\* the evening request of the hall that branch l is at has been issued
EveningIssued(l) == br[l].slot = "Evening" \/ br[l].pc = "parsing"

\* C17: the two requests of a hall are in flight together: while the morning
\* request (or one of its retries) is outstanding the evening request has
\* been issued already.
C17_BothInFlight == \A l \in Locs : MorningOutstanding(l) => EveningIssued(l)

\* the requests of hall number i of location l have been issued
HallStarted(l, i) == br[l].pc = "done" \/ (br[l].pc # "idle" /\ br[l].hall >= i)

RecordsOf(l, i) ==
    Cardinality({n \in 1..Len(allResults) :
                    allResults[n].location = l /\ allResults[n].hallName = LOCATIONS[l][i].name})

SameRecords(a, b) ==
    /\ Len(a) = Len(b)
    /\ \A i \in 1..Len(a) :
           Cardinality({j \in 1..Len(a) : a[j] = a[i]}) = Cardinality({j \in 1..Len(b) : b[j] = a[i]})

\* C19: the call returns only after every location's processing has
\* settled: the list is returned when every branch is done, it holds every
\* record appended, and nothing is appended to it afterwards.
C19_ReturnsAfterAllSettled ==
    /\ []((callState = "resolved" /\ calls > 0) =>
              /\ \A l \in Locs : br[l].pc = "done"
              /\ SameRecords(allResults, returned)
              /\ Len(returned) = 2 * Len(ExpectedOrder))
    /\ [][callState' = "resolved" => \A l \in Locs : br[l].pc = "done" /\ br'[l].pc = "done"]_vars
    /\ [][callState = "resolved" => (allResults' = allResults /\ returned' = returned)]_vars

\* the call has returned the 14 records; one location had all its requests
\* answered at once while a hall of the other went through every retry
C19_Witness ==
    /\ callState = "resolved"
    /\ Len(returned) = 14
    /\ \A l \in Locs : br[l].pc = "done"
    /\ \A i \in 1..Len(LOCATIONS[Ravet]) :
           /\ FinalResponse(LOCATIONS[Ravet][i].morningRange.col) = "ok"
           /\ Outcome(plan, LOCATIONS[Ravet][i].morningRange.col, 0) = "ok"
    /\ \E i \in 1..Len(LOCATIONS[Tathawade]) :
           Exhausted(LOCATIONS[Tathawade][i].eveningRange.col)

\* the number of header rows an offset stands for
HeaderRows(headerOffset) ==
    CASE headerOffset = <<>> -> 0
      [] headerOffset = <<0>> -> 0
      [] headerOffset = <<1>> -> 1
      [] OTHER -> headerOffset[1]

\* C20: the zero-based row index consulted for a slot is (dayOfMonth - 1)
\* plus the header offset of that slot's own range, an offset left out
\* counting as 0; with offset 1 and day-of-month 21 the index is 21.
C20_EffectiveIndex ==
    effective.effectiveMorningDataIndex # <<>> =>
        /\ effective.effectiveMorningDataIndex
               = <<(effective.date.day - 1) + HeaderRows(effective.morningHeaderOffset)>>
        /\ effective.effectiveEveningDataIndex
               = <<(effective.date.day - 1) + HeaderRows(effective.eveningHeaderOffset)>>
        /\ (effective.date.day = 21 /\ effective.morningHeaderOffset = <<1>>) =>
               effective.effectiveMorningDataIndex = <<21>>

\* day-of-month 21, a morning offset of 1 and no evening offset: the indices
\* computed are 21 and 20
C20_Witness ==
    /\ effective.date = MkDate(2025, 4, 21)
    /\ effective.morningHeaderOffset = <<1>>
    /\ effective.eveningHeaderOffset = <<>>
    /\ effective.effectiveMorningDataIndex = <<21>>
    /\ effective.effectiveEveningDataIndex = <<20>>

\* rows the store answers for the range of (hall, slot)
RowsReturned(hall, slot) == StoreRowCount(store, RangeFor(hall, slot))

\* the row index processData computes for (hall, slot) on the selected day
RowIndex(hall, slot) == (selectedDate.day - 1) + OffsetFor(hall, slot)

\* the row the answer holds at that index, when it holds one
RowAtIndex(hall, slot) ==
    StoreRow(store, getSheetDetails(selectedDate).sheetName, RangeFor(hall, slot).col,
             RowIndex(hall, slot))

\* C21: processSlot is given the first cell of the row at the computed index,
\* and undefined when the answer has no values array, when the index is not
\* below the number of rows returned, or when the row has no cells: a record
\* read from a row without cells is Booked, one read from a cell holding the
\* empty string is Available, and further cells of the row play no part.
C21_FirstCellOrUndefined ==
    callState = "resolved" => \A i \in 1..Len(allResults) :
        LET r == allResults[i]
            hall == HallOfRecord(r)
            n == RowsReturned(hall, r.timeSlot)
        IN  Processed(hall, r.timeSlot) =>
                IF n = 0 \/ RowIndex(hall, r.timeSlot) >= n
                THEN r.status = "Booked"
                ELSE LET row == RowAtIndex(hall, r.timeSlot)
                     IN  /\ Len(row) = 0 => r.status = "Booked"
                         /\ Len(row) > 0 => r.status = TableStatus(row[1].chars)
                         /\ (Len(row) > 0 /\ row[1] = Str(<<>>)) => r.status = "Available"

\* one call has read a record from an answer that ends above the index, one
\* from a row without cells, one from a cell holding the empty string and one from
\* a row of two cells
C21_Witness ==
    LET H(x) == HallOfRecord(allResults[x])
        S(x) == allResults[x].timeSlot
        Read(x) == Processed(H(x), S(x))
        Inside(x) == RowIndex(H(x), S(x)) < RowsReturned(H(x), S(x))
    IN  /\ callState = "resolved"
        /\ \E i \in 1..Len(allResults) :
               Read(i) /\ ~Inside(i) /\ allResults[i].status = "Booked"
        /\ \E j \in 1..Len(allResults) :
               /\ Read(j) /\ Inside(j) /\ RowAtIndex(H(j), S(j)) = <<>>
               /\ allResults[j].status = "Booked"
        /\ \E k \in 1..Len(allResults) :
               /\ Read(k) /\ Inside(k) /\ RowAtIndex(H(k), S(k)) = <<Str(<<>>)>>
               /\ allResults[k].status = "Available"
        /\ \E m \in 1..Len(allResults) :
               /\ Read(m) /\ Inside(m) /\ Len(RowAtIndex(H(m), S(m))) = 2
               /\ allResults[m].status = "Available"

\* the hall fails between its two slots: both answers are 2xx with readable
\* bodies, the morning cell is interpreted and the evening cell is a number,
\* on which value.trim() throws
FailsAfterMorning(hall) ==
    /\ Processed(hall, "Morning")
    /\ ~Processed(hall, "Evening")

\* the hall of ExpectedOrder[k] failed, wholly or between its slots
HallFailed(k) == ~Processed(ConfiguredHall(k), "Evening")

\* C22: when a hall fails after its morning record was appended, the catch
\* block appends a Booked record for the evening slot only and the morning
\* record stays as processSlot wrote it; running the catch block of a failed
\* hall once more on the list adds nothing.
C22_FallbackOnlyForMissing ==
    callState = "resolved" => \A k \in 1..Len(ExpectedOrder) :
        LET loc == ExpectedOrder[k][1]
            hall == ConfiguredHall(k)
            morning == Positions(allResults, loc, hall.name, "Morning")
            evening == Positions(allResults, loc, hall.name, "Evening")
        IN  /\ FailsAfterMorning(hall) =>
                /\ Cardinality(morning) = 1 /\ Cardinality(evening) = 1
                /\ \A i \in morning : \A j \in evening :
                       /\ j = i + 1
                       /\ allResults[i].status =
                              IF SheetRow(hall, "Morning") = <<>> THEN "Booked"
                              ELSE TableStatus(SheetRow(hall, "Morning")[1].chars)
                       /\ allResults[j].status = "Booked"
            /\ HallFailed(k) => HallCatch(allResults, selectedDate, loc, hall.name) = allResults

\* a hall failed between its slots and its morning record is still Available
C22_Witness ==
    /\ callState = "resolved"
    /\ \E k \in 1..Len(ExpectedOrder) :
           /\ FailsAfterMorning(ConfiguredHall(k))
           /\ \E i \in Positions(allResults, ExpectedOrder[k][1], ConfiguredHall(k).name, "Morning") :
                  allResults[i].status = "Available"

\* what the retry policy makes of a failed attempt of branch l: a wait of
\* min(2000 * 2^retryAttempt, 10000) ms plus less than 1000 ms before the same
\* request is tried again, or, after the fourth attempt, the failure of the
\* hall, whose missing records are appended as Booked
FailedAttemptHandled(l) ==
    IF br[l].retryAttempt < 3
    THEN /\ br'[l].pc = "backoff"
         /\ br'[l].hall = br[l].hall /\ br'[l].slot = br[l].slot
         /\ br'[l].retryAttempt = br[l].retryAttempt
         /\ br'[l].delay >= WaitBefore(br[l].retryAttempt + 1)
         /\ br'[l].delay < WaitBefore(br[l].retryAttempt + 1) + 1000
         /\ allResults' = allResults
    ELSE /\ br'[l].pc = "done" \/ (br'[l].pc = "inflight" /\ br'[l].hall = br[l].hall + 1)
         /\ Len(allResults') = Len(allResults) + 2
         /\ \A s \in Slots : \E i \in (Len(allResults) + 1)..Len(allResults') :
                /\ allResults'[i].hallName = LOCATIONS[l][br[l].hall].name
                /\ allResults'[i].timeSlot = s
                /\ allResults'[i].status = "Booked"

\* C23: an attempt that the 15 s timer aborts counts as a failed attempt and
\* is handled by the retry policy exactly as an attempt that fails with a
\* transport error.
C23_TimeoutRetried ==
    [][\A l \in Locs :
        (/\ br[l].pc = "inflight"
         /\ OutcomeOf(l) \in {"timeout", "error"}
         /\ br'[l] # br[l]) => FailedAttemptHandled(l)]_vars

\* a branch waits to retry a request whose attempt was aborted by the timer,
\* another request having been given up after a fourth attempt that timed out
C23_Witness ==
    /\ \E l \in Locs :
           /\ br[l].pc = "backoff"
           /\ OutcomeOf(l) = "timeout"
    /\ \E l \in Locs : \E i \in 1..Len(br[l].log) :
           /\ br[l].log[i].error.message = "Failed to fetch data after retries"
           /\ br[l].log[i].error.cause = AttemptError("timeout", maxRetries)

\* the errors branch l has logged that stem from an aborted attempt
AbortsLogged(b) ==
    {i \in 1..Len(b.log) :
        /\ b.log[i].error.message = "Failed to fetch data after retries"
        /\ b.log[i].error.cause.name = "AbortError"}

\* C24: the abort of a timer ends only the attempt the timer was set for: the
\* other branch and its request in flight are left as they are and the
\* response already held for the hall's other slot is kept; once an attempt
\* has settled (the branch waits in backoff or reads bodies) no abort reaches
\* the branch any more.
C24_AbortsOwnAttemptOnly ==
    /\ [][\A l \in Locs :
            (/\ br[l].pc = "inflight"
             /\ OutcomeOf(l) = "timeout"
             /\ br'[l] # br[l]) =>
                /\ \A l2 \in Locs \ {l} : br'[l2] = br[l2]
                /\ br'[l].pc = "backoff" => br'[l].mResp = br[l].mResp]_vars
    /\ [][\A l \in Locs :
            (br[l].pc \in {"backoff", "parsing"} /\ br'[l] # br[l]) =>
                /\ br'[l].pc # "backoff"
                /\ AbortsLogged(br'[l]) = AbortsLogged(br[l])
                /\ br[l].pc = "backoff" =>
                       /\ br'[l].pc = "inflight"
                       /\ br'[l].retryAttempt = br[l].retryAttempt + 1]_vars

\* an evening attempt was aborted while the morning response is held and the
\* other branch has a request in flight
C24_Witness ==
    \E l \in Locs : \E l2 \in Locs \ {l} :
        /\ br[l].pc = "backoff"
        /\ OutcomeOf(l) = "timeout"
        /\ br[l].slot = "Evening"
        /\ br[l].mResp = "ok"
        /\ br[l2].pc = "inflight"

\* the hall of ExpectedOrder[k] is over in its branch
HallOver(k) ==
    LET b == br[ExpectedOrder[k][1]]
    IN  b.pc = "done" \/ (b.pc # "idle" /\ b.hall > ExpectedOrder[k][2])

\* the range column whose fetch fails for good in the hall, if there is one:
\* the morning one, or the evening one when the morning fetch returned
GivenUpColumn(hall) ==
    IF Exhausted(hall.morningRange.col) THEN <<hall.morningRange.col>>
    ELSE IF Exhausted(hall.eveningRange.col) THEN <<hall.eveningRange.col>>
    ELSE <<>>

\* the errors the branch has logged for a hall
LoggedFor(loc, hallName) ==
    {br[loc].log[i].error : i \in {j \in 1..Len(br[loc].log) : br[loc].log[j].hallName = hallName}}

\* C25: when the four attempts of a range fetch have all failed, the error
\* fetchWithRetry throws is the one of the fourth attempt, and the error the
\* hall's catch block receives is "Failed to fetch data ..." followed by that
\* error's message.
C25_LastAttemptError ==
    \A k \in 1..Len(ExpectedOrder) :
        LET hall == ConfiguredHall(k)
            c == GivenUpColumn(hall)
        IN  (HallOver(k) /\ c # <<>>) =>
                LoggedFor(ExpectedOrder[k][1], hall.name) =
                    {[name |-> "Error", message |-> "Failed to fetch data after retries",
                      cause |-> [name |-> IF Outcome(plan, c[1], 3) = "timeout"
                                          THEN "AbortError" ELSE "TypeError",
                                 message |-> IF Outcome(plan, c[1], 3) = "timeout"
                                             THEN "Aborted" ELSE "Network request failed",
                                 attempt |-> 3]]}

\* a hall was given up with the AbortError of the fourth attempt of a request
\* whose first attempt failed with a transport error
C25_Witness ==
    \E k \in 1..Len(ExpectedOrder) :
        LET hall == ConfiguredHall(k)
            c == GivenUpColumn(hall)
        IN  /\ HallOver(k)
            /\ c # <<>>
            /\ Outcome(plan, c[1], 0) = "error"
            /\ Outcome(plan, c[1], 3) = "timeout"
            /\ \E e \in LoggedFor(ExpectedOrder[k][1], hall.name) : e.cause.name = "AbortError"

EndOf(op) == rn.requestFn.script[op.attempt + 1]

\* C27: retryNetworkRequest leaves the cache alone while an attempt is in
\* flight; it writes the cache only once the attempt has resolved with data,
\* never after an attempt that failed, and it reads the cache only after the
\* last attempt allowed by maxRetries has failed.
C27_CacheDiscipline ==
    /\ [][/\ rn.pc = "requesting" => (rn'.cache = rn.cache /\ rn'.ops = rn.ops)
          /\ rn'.cache # rn.cache =>
                 (rn.pc = "caching" /\ rn.requestFn.script[rn.attempt + 1] = "data")
          /\ rn'.ops # rn.ops =>
                 /\ rn.pc \in {"caching", "loading"}
                 /\ SubSeq(rn'.ops, 1, Len(rn.ops)) = rn.ops]_vars
    /\ [](\A i \in 1..Len(rn.ops) :
            /\ rn.ops[i].op = "write" => EndOf(rn.ops[i]) = "data"
            /\ rn.ops[i].op = "read" =>
                   /\ EndOf(rn.ops[i]) # "data"
                   /\ rn.ops[i].attempt = MaxRetriesOf(rn.maxRetries) - 1)

\* after two attempts that failed with a network error and a third that
\* failed too, the call has read the cache once and returned what it held
C27_Witness ==
    /\ rn.pc = "returned"
    /\ rn.result = <<"cached">>
    /\ rn.ops = <<[op |-> "read", attempt |-> 2]>>
    /\ rn.requestFn.script[1] = "network"
    /\ rn.requestFn.script[2] = "network"

\* rows a configured range spans
RowsSpanned(range) == range.last - range.first + 1

\* C28: for every configured hall and slot the row index (day - 1) +
\* headerOffset of the day asked for is smaller than the number of rows the
\* configured range spans, whatever the day of the month.
C28_IndexInsideRange ==
    callState = "resolved" =>
        \A k \in 1..Len(ExpectedOrder) : \A slot \in Slots :
            RowIndex(ConfiguredHall(k), slot) < RowsSpanned(RangeFor(ConfiguredHall(k), slot))

\* the status the sheet and the hall's own two fetches give a slot: the
\* cell's status when processSlot ran for it, Booked otherwise
OwnStatus(hall, slot) ==
    IF ~Processed(hall, slot) THEN "Booked"
    ELSE IF SheetRow(hall, slot) = <<>> THEN "Booked"
    ELSE TableStatus(SheetRow(hall, slot)[1].chars)

\* a hall configured before ExpectedOrder[k] in the same location failed
EarlierHallFailed(k) ==
    \E j \in 1..Len(ExpectedOrder) :
        /\ ExpectedOrder[j][1] = ExpectedOrder[k][1]
        /\ ExpectedOrder[j][2] < ExpectedOrder[k][2]
        /\ HallFailed(j)

\* C29: the failure of a hall does not keep the later halls of its location
\* from being fetched and interpreted: each of them ends with its two records,
\* morning before evening, whose statuses depend on its own fetches and its
\* own cells only, as they would had the earlier hall succeeded.
C29_LaterHallsUnaffected ==
    callState = "resolved" => \A k \in 1..Len(ExpectedOrder) :
        EarlierHallFailed(k) =>
            LET loc == ExpectedOrder[k][1]
                hall == ConfiguredHall(k)
                morning == Positions(allResults, loc, hall.name, "Morning")
                evening == Positions(allResults, loc, hall.name, "Evening")
            IN  /\ Cardinality(morning) = 1 /\ Cardinality(evening) = 1
                /\ \A i \in morning : allResults[i].status = OwnStatus(hall, "Morning")
                /\ \A i \in evening : allResults[i].status = OwnStatus(hall, "Evening")
                /\ \A i \in morning : \A j \in evening : i < j

\* the first hall of a location was given up after four failed attempts and a
\* later hall of the location has an Available record read from the sheet
C29_Witness ==
    /\ callState = "resolved"
    /\ \E j, k \in 1..Len(ExpectedOrder) :
           /\ ExpectedOrder[j][1] = ExpectedOrder[k][1]
           /\ ExpectedOrder[j][2] = 1
           /\ ExpectedOrder[k][2] > 1
           /\ GivenUpColumn(ConfiguredHall(j)) # <<>>
           /\ Processed(ConfiguredHall(k), "Evening")
           /\ \E i \in Positions(allResults, ExpectedOrder[k][1], ConfiguredHall(k).name, "Morning") :
                  allResults[i].status = "Available"

\* a call never makes more than 4 attempts for a range nor more than 8 for a hall
AttemptsBounded ==
    \A l \in Locs : br[l].retryAttempt + 1 <= 4 /\ br[l].attempts <= 8

LatestGaveList == hook.latestOutcome \in {"records", "empty"}

\* C31: in useHallData, once every fetch has settled, halls holds what the
\* fetch started for the most recently selected date resolved to, whatever
\* the order in which the fetches complete
C31_LatestDateWins ==
    (hook.running = <<>> /\ LatestGaveList)
        => /\ hook.fromLatest
           /\ \A i \in 1..Len(hook.halls) : hook.halls[i].date = formatDate(hook.selectedDate)

\* ------------------------------------------------------------------ C32

\* the positions of the header of location in list
HeadersOf(list, location) ==
    {i \in 1..Len(list) : list[i].hallName = "" /\ list[i].location = location}

\* the status the input gives a slot, the revision's default where it gives none
InputStatus(revision, hallData, r) ==
    LET Same(l) == toUpperCase(Chars(l)) = toUpperCase(Chars(r.location))
        same == {hallData[i].location : i \in {j \in 1..Len(hallData) :
                                                  Same(hallData[j].location)}}
    IN  OrElse(Grouped(hallData, same, r.hallName, r.timeSlot),
               IF revision = "first" THEN "Booked" ELSE "Enquiry")

\* list has every location's records behind exactly one header of that
\* location, and every Morning record directly followed by the Evening record
\* of the same hall and location
HeaderThenPairs(list) ==
    /\ list # <<>> => list[1].hallName = ""
    /\ \A i \in 1..Len(list) :
          /\ Cardinality(HeadersOf(list, list[i].location)) = 1
          /\ \A j \in HeadersOf(list, list[i].location) :
                /\ j <= i
                /\ \A k \in j..i : list[k].location = list[i].location
          /\ (list[i].hallName # "" /\ list[i].timeSlot = "Morning") =>
                /\ i + 1 <= Len(list)
                /\ list[i + 1].hallName = list[i].hallName
                /\ list[i + 1].location = list[i].location
                /\ list[i + 1].timeSlot = "Evening"
          /\ (list[i].hallName # "" /\ list[i].timeSlot = "Evening") =>
                /\ i > 1
                /\ list[i - 1].hallName = list[i].hallName
                /\ list[i - 1].timeSlot = "Morning"

\* renderHallItem shows every hall of list once, with the statuses of its
\* Morning record and of the Evening record behind it
PairedByAdjacency(revision, list) ==
    \A i \in 1..Len(list) :
        LET view == IF revision = "first" THEN renderHallItem(list, list[i], i)
                    ELSE renderHallItemLater(list, list[i], i)
        IN  IF list[i].hallName = "" THEN view.kind = "header"
            ELSE IF list[i].timeSlot = "Evening" THEN view = NoView
            ELSE view = [kind |-> "hall", hallName |-> list[i].hallName,
                         Morning |-> list[i].status, Evening |-> list[i + 1].status]

\* C32: the list processHallData stores in halls has each location's records
\* behind exactly one header record and every Morning record of a hall at
\* position i followed at i+1 by the Evening record of the same hall and
\* location, for any order of the input records (every record of the input
\* is there with its status); renderHallItem pairs the slots by this adjacency
C32_HeaderThenPairs ==
    app.running = <<>> =>
        /\ HeaderThenPairs(app.halls)
        /\ PairedByAdjacency(app.revision, app.halls)
        /\ app.displayedHalls = app.halls
        /\ \A k \in 1..Len(returned) :
              \E i \in 1..Len(app.halls) :
                  /\ app.halls[i].hallName = returned[k].hallName
                  /\ app.halls[i].timeSlot = returned[k].timeSlot
                  /\ app.halls[i].status = returned[k].status
        /\ \A i \in 1..Len(app.halls) :
              app.halls[i].hallName # "" =>
                  app.halls[i].status = InputStatus(app.revision, returned, app.halls[i])

\* an input that is not sorted and lacks a record has been organized: two
\* headers, seven pairs, one of them completed with the default status
C32_Witness ==
    /\ app.running = <<>>
    /\ app.revision = "first"
    /\ Len(returned) = 13
    /\ Len(app.halls) = 16
    /\ \E i \in 1..Len(app.halls) :
          /\ app.halls[i].timeSlot = "Morning" /\ app.halls[i].hallName # ""
          /\ app.halls[i + 1].timeSlot = "Evening"
          /\ \A k \in 1..Len(returned) :
                ~(returned[k].hallName = app.halls[i].hallName /\ returned[k].timeSlot = "Morning")

\* ------------------------------------------------------------------ C33

ListVisible(a) == Screen(a) = "halls" /\ ~a.loading /\ ~a.networkError

\* C34: after any sequence of Find, retry and loadMore events, whenever the
\* hall list is visible displayedHalls is a prefix of halls without repeated
\* items, of length min(page * ITEMS_PER_PAGE, halls.length)
C34_DisplayedIsPrefix ==
    ListVisible(app) =>
        /\ Len(app.displayedHalls) = Min(app.page * ITEMS_PER_PAGE, Len(app.halls))
        /\ app.displayedHalls = SubSeq(app.halls, 1, Len(app.displayedHalls))
        /\ \A i, j \in 1..Len(app.displayedHalls) :
              app.displayedHalls[i] = app.displayedHalls[j] => i = j

\* the list is shown (loadMore can be called) after a Find that ended in the
\* error panel and a retry that stored the 14 fetched records
C34_Witness ==
    /\ ListShown(app)
    /\ app.running = <<>>
    /\ Len(app.displayedHalls) = 14
    /\ app.displayedHalls = app.halls
    /\ app.page = 1

\* ------------------------------------------------------------------ C35

\* the handlers awaiting fetchHallData
FetchesInFlight(a) == {i \in 1..Len(a.running) : a.running[i].pc = "fetch"}

\* a press on Find starts handleFind
FindOffered(a) == Screen(a) = "halls" /\ ~a.loading

\* a press on the retry button of the error panel starts its handler
RetryOffered(a) == ErrorPanel(a) /\ (a.revision = "later" => ~a.loading)

EveryAttemptRetryable(r) ==
    \A k \in 1..MaxRetriesOf(r.maxRetries) :
        /\ r.requestFn.script[k] # "data"
        /\ shouldRetry(MessageOf(r.requestFn.script[k]))
        /\ ~IsCleartext(MessageOf(r.requestFn.script[k]), r.os)

\* the storage has nothing to give for the call
NoCachedValue(r) == r.cache = <<>> \/ r.storageFails

\* C37: when every attempt of retryNetworkRequest fails with a retryable
\* error and no cached value is available, the call rejects with the error of
\* the last attempt, after exactly maxRetries calls of requestFn
C37_RejectsWithLastError ==
    (rn.pc \in {"thrown", "returned"} /\ EveryAttemptRetryable(rn) /\ NoCachedValue(rn)) =>
        /\ rn.pc = "thrown"
        /\ rn.result = MessageOf(rn.requestFn.script[MaxRetriesOf(rn.maxRetries)])
        /\ rn.attempt + 1 = MaxRetriesOf(rn.maxRetries)

\* ------------------------------------------------------------------ C38

\* the handlers that fetch, verify or check for updates
ScreenHandlers(a) ==
    {i \in 1..Len(a.running) :
        a.running[i].name \in {"handleFind", "handleNetworkErrorRetry",
                               "handleConnectionRetry", "handleCheckForUpdates"}}

\* the handlers awaiting AsyncStorage.setItem(AUTH_STORAGE_KEY, 'true')
StoringFlag(a) == {i \in 1..Len(a.running) : a.running[i].pc = "setItem"}

\* a step in which a handler comes to await the storing of the flag: the
\* password it compared was AUTH_PASSWORD
FlagStoredOnlyForPassword ==
    Cardinality(StoringFlag(app')) > Cardinality(StoringFlag(app)) =>
        /\ Screen(app) = "password"
        /\ IF app.revision = "first" THEN app.password = AUTH_PASSWORD
           ELSE \E i \in 1..Len(app.running) :
                    /\ app.running[i].pc = "timer"
                    /\ app.running[i].password = AUTH_PASSWORD
                    /\ app'.running = [app.running EXCEPT ![i].pc = "setItem"]

\* a step in which isAuthenticated becomes true: the start-up read found the
\* flag 'true', or a handler that compared the right password stored the flag
AuthenticatedOnlyByFlagOrPassword ==
    (app'.isAuthenticated /\ ~app.isAuthenticated) =>
        \/ /\ app.isCheckingAuth
           /\ app.stored = "true"
           /\ \E i \in 1..Len(app.running) :
                 /\ app.running[i].name = "checkAuthStatus"
                 /\ app'.running = Without(app.running, i)
        \/ /\ Screen(app) = "password"
           /\ app'.stored = "true"
           /\ \E i \in StoringFlag(app) : app'.running = Without(app.running, i)

\* a step in which a fetching handler starts is taken on the hall screen
FetchOnlyWhenAuthenticated ==
    Cardinality(ScreenHandlers(app')) > Cardinality(ScreenHandlers(app)) =>
        app.isAuthenticated /\ ~app.isCheckingAuth

\* C38: the hall screen is rendered, and a fetch can be started from it, only
\* while isAuthenticated is true; isAuthenticated becomes true only when the
\* stored flag is 'true' at start-up or when the entered password equals
\* AUTH_PASSWORD and the flag was stored; a wrong password never changes it
C38_AuthGate ==
    /\ [](app.revision # "none" =>
             /\ Screen(app) = "halls" => app.isAuthenticated
             /\ ScreenHandlers(app) # {} => app.isAuthenticated
             /\ ~app.isAuthenticated => app.halls = <<>> /\ app.displayedHalls = <<>>)
    /\ [][/\ FlagStoredOnlyForPassword
          /\ AuthenticatedOnlyByFlagOrPassword
          /\ FetchOnlyWhenAuthenticated]_vars

\* the user has unlocked the screen with the password and a fetch is running
C38_Witness ==
    /\ app.revision = "later"
    /\ app.password = AUTH_PASSWORD
    /\ app.isAuthenticated
    /\ app.stored = "true"
    /\ \E i \in ScreenHandlers(app) : app.running[i].pc = "fetch"

====
